---- MODULE Spec2Model ----
(***************************************************************************)
(* Model of backend/app.py of the Bhavya health data fetcher: the token    *)
(* exchange and endpoint fetch of DataFetcher, the record assembly of      *)
(* DataFetcher.process_data, the duplicate-safe insert of DatabaseManager  *)
(* and the progress-event stream of fetch_data_stream.                     *)
(***************************************************************************)
EXTENDS Integers, Sequences, FiniteSets, Bags, TLC

(***************************************************************************)
(* Bounds of the model.                                                    *)
(***************************************************************************)
\* the fan-out ranges over the first NumEndpoints entries of ENDPOINTS
NumEndpoints == 2
\* the days 1..MaxDay of Calendar are the dates a request can name
MaxDay == 2

(***************************************************************************)
(* JSON values as Python sees them after resp.json().  A scalar carries    *)
(* the text Python's str() gives it.                                       *)
(***************************************************************************)
Null == [t |-> "null"]
JStr(s) == [t |-> "str", s |-> s]
JNum(s) == [t |-> "num", s |-> s]
JObj(f) == [t |-> "obj", f |-> f]
JArr(a) == [t |-> "arr", a |-> a]

EmptyMap == [k \in {} |-> Null]

\* Python truthiness, as used by `if all_data.get(name):` and `if data`
Truthy(v) ==
    CASE v.t = "null" -> FALSE
      [] v.t = "str" -> v.s # ""
      [] v.t = "num" -> v.s \notin {"0", "0.0"}
      [] v.t = "obj" -> DOMAIN v.f # {}
      [] v.t = "arr" -> Len(v.a) > 0

\* str(val)
PyStr(v) ==
    CASE v.t = "null" -> "None"
      [] v.t = "str" -> v.s
      [] v.t = "num" -> v.s
      [] v.t = "obj" -> IF DOMAIN v.f = {} THEN "{}" ELSE "{...}"
      [] v.t = "arr" -> IF Len(v.a) = 0 THEN "[]" ELSE "[...]"

\* str.lower() on the strings of the model
PyLower(s) ==
    CASE s = "NULL" -> "null"
      [] s = "Null" -> "null"
      [] s = "None" -> "none"
      [] s = "NaN" -> "nan"
      [] s = "N/A" -> "n/a"
      [] s = "NA" -> "na"
      [] s = "Not Found" -> "not found"
      [] s = "Not Available" -> "not available"
      [] s = "Bihar" -> "bihar"
      [] s = "Bhavya" -> "bhavya"
      [] s = "State Health System Performance" -> "state health system performance"
      [] s = "December" -> "december"
      [] s = "January" -> "january"
      [] OTHER -> s

(***************************************************************************)
(* The registry and the schema.                                            *)
(***************************************************************************)
\* names of the 34 entries of ENDPOINTS, in order
ENDPOINTS == <<
    "staff_data", "unique_patients", "opd_patients", "male_female_count",
    "patient_journey_time", "patient_waiting_time",
    "eaushadhi_facility_count", "ipd_facility_ward_bed", "ipd_patient_admit",
    "mlc_count", "ae_opd_consultation", "ae_observation_count", "abdm_data",
    "total_district", "total_live_district", "total_block",
    "total_live_block", "hsc_count", "hsc_patient_registered",
    "cho_anm_count", "hsc_patient_till_now", "patient_visits_count_hsc",
    "state_dashboard_patient_count", "citizen_portal_facility_count",
    "patient_first_registration_opd", "facilitator_asha_count",
    "bcm_dcm_count", "dist_block_village_panch_hsc", "asha_household",
    "asha_beneficiary", "asha_eligible_couple", "asha_pregnant_women",
    "total_child_care", "delivery_count" >>

TARGET_COLUMNS == <<
    "data_date", "state_name", "focus_area", "year", "month",
    "number_of_abdm_cards_linked", "number_of_abdm_cards_shared",
    "number_of_abdm_cards_created",
    "number_of_abdm_health_facility_registry",
    "abdm_healthcare_professionals_registry", "number_of_doctors",
    "number_of_nurses", "number_of_data_entry_operators",
    "number_of_pharmacists", "number_of_lab_attendents",
    "number_of_community_health_officers",
    "number_of_auxiliary_nurse_midwives", "facilitator_count", "asha_count",
    "number_of_total_patients_visit", "number_of_patient_opd_patient_visit",
    "number_of_male_patient_visit", "number_of_female_patient_visit",
    "number_of_transgender_patient_visit", "unique_patients_total",
    "number_of_ipd_patient_admission", "number_of_ipd_patient_discharge",
    "number_of_ipd_patient_surgery", "number_of_ipd_patient_transfer",
    "medico_legal_cases_count", "accident_emergency_opd_count",
    "accident_emergency_observation_count", "total_district", "total_blocks",
    "total_villages", "total_panchayats", "total_hsc", "live_hsc",
    "live_facilities", "asha_beneficiary_count",
    "asha_eligible_couple_count", "asha_household_count",
    "asha_pregnant_women_count", "delivery_count", "total_child_care_count",
    "eaushadhi_facility_count", "patient_journey_time_min",
    "patient_waiting_time_min", "hsc_patient_registered_total",
    "hsc_patient_till_now_total", "state_dashboard_patient_count",
    "start_date", "end_date", "source", "citizen_portal_live_facility_count",
    "number_of_wards", "number_of_beds", "fetched_at" >>

\* the extraction statements of process_data, in source order: the column
\* assigned, the endpoint read, the key read, the fallback key, the form
RULES == <<
    [col |-> "number_of_doctors", ep |-> "staff_data",
     key |-> "doctor", fb |-> "", kind |-> "plain"],
    [col |-> "number_of_nurses", ep |-> "staff_data",
     key |-> "nurse", fb |-> "", kind |-> "plain"],
    [col |-> "number_of_data_entry_operators", ep |-> "staff_data",
     key |-> "deo", fb |-> "", kind |-> "plain"],
    [col |-> "number_of_pharmacists", ep |-> "staff_data",
     key |-> "pharmacist", fb |-> "", kind |-> "plain"],
    [col |-> "number_of_lab_attendents", ep |-> "staff_data",
     key |-> "lab_attendent", fb |-> "", kind |-> "plain"],
    [col |-> "number_of_community_health_officers", ep |-> "staff_data",
     key |-> "cho_staff", fb |-> "", kind |-> "plain"],
    [col |-> "unique_patients_total", ep |-> "unique_patients",
     key |-> "total_patient", fb |-> "", kind |-> "plain"],
    [col |-> "number_of_patient_opd_patient_visit", ep |-> "opd_patients",
     key |-> "patient_visit", fb |-> "", kind |-> "plain"],
    [col |-> "number_of_male_patient_visit", ep |-> "male_female_count",
     key |-> "male_patient_visist", fb |-> "", kind |-> "plain"],
    [col |-> "number_of_female_patient_visit", ep |-> "male_female_count",
     key |-> "female_patient_visist", fb |-> "", kind |-> "plain"],
    [col |-> "number_of_transgender_patient_visit", ep |-> "male_female_count",
     key |-> "transgender_patient_visits", fb |-> "", kind |-> "plain"],
    [col |-> "patient_journey_time_min", ep |-> "patient_journey_time",
     key |-> "journey_time_min", fb |-> "", kind |-> "plain"],
    [col |-> "patient_waiting_time_min", ep |-> "patient_waiting_time",
     key |-> "waiting_time_min", fb |-> "", kind |-> "plain"],
    [col |-> "eaushadhi_facility_count", ep |-> "eaushadhi_facility_count",
     key |-> "count", fb |-> "", kind |-> "plain"],
    [col |-> "number_of_wards", ep |-> "ipd_facility_ward_bed",
     key |-> "ward_count", fb |-> "wards", kind |-> "fallback"],
    [col |-> "number_of_beds", ep |-> "ipd_facility_ward_bed",
     key |-> "bed_count", fb |-> "beds", kind |-> "fallback"],
    [col |-> "number_of_ipd_patient_admission", ep |-> "ipd_patient_admit",
     key |-> "admission", fb |-> "", kind |-> "plain"],
    [col |-> "number_of_ipd_patient_discharge", ep |-> "ipd_patient_admit",
     key |-> "discharge", fb |-> "", kind |-> "plain"],
    [col |-> "number_of_ipd_patient_surgery", ep |-> "ipd_patient_admit",
     key |-> "surgery", fb |-> "", kind |-> "plain"],
    [col |-> "number_of_ipd_patient_transfer", ep |-> "ipd_patient_admit",
     key |-> "transfer", fb |-> "", kind |-> "plain"],
    [col |-> "medico_legal_cases_count", ep |-> "mlc_count",
     key |-> "count", fb |-> "", kind |-> "plain"],
    [col |-> "accident_emergency_opd_count", ep |-> "ae_opd_consultation",
     key |-> "count", fb |-> "", kind |-> "plain"],
    [col |-> "accident_emergency_observation_count", ep |-> "ae_observation_count",
     key |-> "count", fb |-> "", kind |-> "plain"],
    [col |-> "number_of_abdm_cards_linked", ep |-> "abdm_data",
     key |-> "Linked", fb |-> "", kind |-> "plain"],
    [col |-> "number_of_abdm_cards_shared", ep |-> "abdm_data",
     key |-> "Shared", fb |-> "", kind |-> "plain"],
    [col |-> "number_of_abdm_cards_created", ep |-> "abdm_data",
     key |-> "Created", fb |-> "", kind |-> "plain"],
    [col |-> "number_of_abdm_health_facility_registry", ep |-> "abdm_data",
     key |-> "HFR", fb |-> "", kind |-> "plain"],
    [col |-> "abdm_healthcare_professionals_registry", ep |-> "abdm_data",
     key |-> "HPR", fb |-> "", kind |-> "plain"],
    [col |-> "total_district", ep |-> "total_district",
     key |-> "count", fb |-> "", kind |-> "plain"],
    [col |-> "total_blocks", ep |-> "total_block",
     key |-> "count", fb |-> "", kind |-> "plain"],
    [col |-> "live_hsc", ep |-> "hsc_count",
     key |-> "live_hsc", fb |-> "", kind |-> "plain"],
    [col |-> "total_hsc", ep |-> "hsc_count",
     key |-> "total_hsc", fb |-> "", kind |-> "plain"],
    [col |-> "hsc_patient_registered_total", ep |-> "hsc_patient_registered",
     key |-> "total_patient", fb |-> "", kind |-> "plain"],
    [col |-> "number_of_auxiliary_nurse_midwives", ep |-> "cho_anm_count",
     key |-> "anm", fb |-> "", kind |-> "anm"],
    [col |-> "hsc_patient_till_now_total", ep |-> "hsc_patient_till_now",
     key |-> "total_patient", fb |-> "", kind |-> "plain"],
    [col |-> "number_of_total_patients_visit", ep |-> "patient_visits_count_hsc",
     key |-> "pateint_visits", fb |-> "", kind |-> "plain"],
    [col |-> "state_dashboard_patient_count", ep |-> "state_dashboard_patient_count",
     key |-> "patient_count", fb |-> "", kind |-> "plain"],
    [col |-> "citizen_portal_live_facility_count", ep |-> "citizen_portal_facility_count",
     key |-> "Total_Live_Facilities", fb |-> "", kind |-> "plain"],
    [col |-> "live_facilities", ep |-> "citizen_portal_facility_count",
     key |-> "Total_Live_Facilities", fb |-> "", kind |-> "plain"],
    [col |-> "facilitator_count", ep |-> "facilitator_asha_count",
     key |-> "facilitator_count", fb |-> "", kind |-> "plain"],
    [col |-> "asha_count", ep |-> "facilitator_asha_count",
     key |-> "asha_count", fb |-> "", kind |-> "plain"],
    [col |-> "total_villages", ep |-> "dist_block_village_panch_hsc",
     key |-> "village_counts", fb |-> "", kind |-> "plain"],
    [col |-> "total_panchayats", ep |-> "dist_block_village_panch_hsc",
     key |-> "panchayat_counts", fb |-> "", kind |-> "plain"],
    [col |-> "asha_household_count", ep |-> "asha_household",
     key |-> "household_count", fb |-> "", kind |-> "plain"],
    [col |-> "asha_beneficiary_count", ep |-> "asha_beneficiary",
     key |-> "beneficiary_count", fb |-> "", kind |-> "plain"],
    [col |-> "asha_eligible_couple_count", ep |-> "asha_eligible_couple",
     key |-> "ec_count", fb |-> "", kind |-> "plain"],
    [col |-> "asha_pregnant_women_count", ep |-> "asha_pregnant_women",
     key |-> "pw_count", fb |-> "", kind |-> "plain"],
    [col |-> "total_child_care_count", ep |-> "total_child_care",
     key |-> "child_count", fb |-> "", kind |-> "plain"],
    [col |-> "delivery_count", ep |-> "delivery_count",
     key |-> "delivery_count", fb |-> "", kind |-> "plain"] >>

NA == "Not Available"

PLACEHOLDERS == {"null", "none", "nan", "not found", "notfound", "n/a", "na", "-"}

\* the days a request can name: the text strftime("%Y-%m-%d") gives the date,
\* the text without the zero padding of month and day, which
\* strptime(text, "%Y-%m-%d") reads as the same date, and the year and the
\* month name that strptime / strftime derive from it
Calendar == <<
    [s |-> "2023-12-31", u |-> "2023-12-31", y |-> "2023", m |-> "December"],
    [s |-> "2024-01-01", u |-> "2024-1-1", y |-> "2024", m |-> "January"],
    [s |-> "2024-01-02", u |-> "2024-1-2", y |-> "2024", m |-> "January"],
    [s |-> "2024-01-03", u |-> "2024-1-3", y |-> "2024", m |-> "January"],
    [s |-> "2024-01-04", u |-> "2024-1-4", y |-> "2024", m |-> "January"] >>

Days == 1..MaxDay

Range(seq) == {seq[i] : i \in DOMAIN seq}

(***************************************************************************)
(* DataFetcher.safe_get and DataFetcher.process_data.                      *)
(***************************************************************************)
\* a faulty test: it compares the words without lower-casing the value
IsPlaceholderExact(val) ==
    \/ val.t = "null"
    \/ (val.t = "str" /\ val.s = "")
    \/ PyStr(val) \in PLACEHOLDERS

\* the test both safe_get and the final pass apply to a value
IsPlaceholder(val) ==
    \/ val.t = "null"
    \/ (val.t = "str" /\ val.s = "")
    \/ PyLower(PyStr(val)) \in PLACEHOLDERS

\* dict.get(key): the value, or None when the key is absent
DictGet(f, key) == IF key \in DOMAIN f THEN f[key] ELSE Null

\* safe_get(data, key, default) for data None or a dict; the result is a str
safe_get(data, key, default) ==
    IF data.t = "null" THEN default
    ELSE LET val == DictGet(data.f, key)
         IN  IF IsPlaceholder(val) THEN default ELSE PyStr(val)

\* a faulty extraction statement: it reads the primary key alone
RuleValuePrimaryOnly(r, d, old) == safe_get(d, r.key, NA)

\* a faulty extraction: every statement keeps the old value for "0" and "0.0"
RuleValueZeroHidden(r, d, old) ==
    LET val == IF r.kind = "fallback" THEN safe_get(d, r.key, safe_get(d, r.fb, NA))
               ELSE safe_get(d, r.key, NA)
    IN  IF val \notin {NA, "0", "0.0"} THEN val ELSE old

\* the value one extraction statement leaves in its column, given the value
\* `old` the column held and the endpoint's result d, a dict
RuleValue(r, d, old) ==
    CASE r.kind = "plain" -> safe_get(d, r.key, NA)
      [] r.kind = "fallback" -> safe_get(d, r.key, safe_get(d, r.fb, NA))
      [] r.kind = "anm" ->
            LET anm == safe_get(d, r.key, NA)
            IN  IF anm \notin {NA, "0", "0.0"} THEN anm ELSE old

\* whether the statements of rule r run: its `if all_data.get(ep):`
Live(all_data, r) == Truthy(DictGet(all_data, r.ep))

\* a faulty process_data: it calls safe_get on the result of every endpoint
RaisesAnyEndpoint(all_data) ==
    \E n \in DOMAIN all_data : Truthy(all_data[n]) /\ all_data[n].t # "obj"

\* safe_get calls data.get: a truthy result that is no dict raises
\* AttributeError out of process_data
Raises(all_data) ==
    \E i \in DOMAIN RULES :
        Live(all_data, RULES[i]) /\ DictGet(all_data, RULES[i].ep).t # "obj"

\* the extraction statement that assigns a column (no column has two), or 0
RuleOf ==
    [c \in Range(TARGET_COLUMNS) |->
        IF \E i \in DOMAIN RULES : RULES[i].col = c
        THEN CHOOSE i \in DOMAIN RULES : RULES[i].col = c
        ELSE 0]

\* the row after the extraction statements
Extract(base, all_data) ==
    [c \in DOMAIN base |->
        IF RuleOf[c] = 0 THEN base[c]
        ELSE LET r == RULES[RuleOf[c]]
                 d == DictGet(all_data, r.ep)
             IN  IF Live(all_data, r) THEN RuleValue(r, d, base[c]) ELSE base[c]]

\* a faulty final pass: it also lower-cases the values it keeps
SanitizeLower(val) == IF IsPlaceholder(val) THEN NA ELSE PyLower(PyStr(val))

\* the final pass of process_data over one value: the str it leaves
SanitizeVal(val) == IF IsPlaceholder(val) THEN NA ELSE PyStr(val)

\* the final pass of process_data over a row of values
Sanitize(row) == [c \in DOMAIN row |-> SanitizeVal(row[c])]

\* a row of str, as a row of values
AsValues(row) == [c \in DOMAIN row |-> JStr(row[c])]

\* the row before the extraction statements: every column the sentinel, then
\* the bookkeeping columns
BaseRow(day, start, end, now) ==
    [c \in Range(TARGET_COLUMNS) |->
        CASE c = "data_date" -> Calendar[day].s
          [] c = "state_name" -> "Bihar"
          [] c = "focus_area" -> "State Health System Performance"
          [] c = "year" -> Calendar[day].y
          [] c = "month" -> Calendar[day].m
          [] c = "start_date" -> Calendar[start].s
          [] c = "end_date" -> Calendar[end].s
          [] c = "source" -> "Bhavya"
          [] c = "fetched_at" -> now
          [] OTHER -> NA]

\* process_data(all_data, data_date, start_date, end_date): raised is TRUE
\* when the call ends in an exception, and row is the returned row otherwise
process_data(all_data, day, start, end, now) ==
    IF Raises(all_data)
    THEN [raised |-> TRUE, row |-> BaseRow(day, start, end, now)]
    ELSE [raised |-> FALSE,
          row |-> Sanitize(AsValues(Extract(BaseRow(day, start, end, now), all_data)))]

(***************************************************************************)
(* DataFetcher.fetch_endpoint: the result for the body of a 200 response.  *)
(***************************************************************************)
WRAPPER_KEYS == <<"data", "result", "results", "records">>

\* the wrapper keys of a dict body whose value is a non-empty list
Wrapped(f) ==
    {i \in DOMAIN WRAPPER_KEYS :
        /\ WRAPPER_KEYS[i] \in DOMAIN f
        /\ f[WRAPPER_KEYS[i]].t = "arr"
        /\ Len(f[WRAPPER_KEYS[i]].a) > 0}

Min(S) == CHOOSE x \in S : \A y \in S : x <= y
Max(S) == CHOOSE x \in S : \A y \in S : x >= y

\* a faulty normalisation: the last wrapper key with a non-empty list wins
NormalizeLastKey(data) ==
    IF data.t = "arr" /\ Len(data.a) > 0
    THEN IF data.a[1].t = "obj" THEN data.a[1]
         ELSE JObj([k \in {"value"} |-> data.a[1]])
    ELSE IF data.t = "obj"
    THEN IF Wrapped(data.f) # {}
         THEN data.f[WRAPPER_KEYS[Max(Wrapped(data.f))]].a[1]
         ELSE data
    ELSE Null

Normalize(data) ==
    IF data.t = "arr" /\ Len(data.a) > 0
    THEN IF data.a[1].t = "obj" THEN data.a[1]
         ELSE JObj([k \in {"value"} |-> data.a[1]])
    ELSE IF data.t = "obj"
    THEN IF Wrapped(data.f) # {}
         THEN data.f[WRAPPER_KEYS[Min(Wrapped(data.f))]].a[1]
         ELSE data
    ELSE Null

(***************************************************************************)
(* State.                                                                  *)
(***************************************************************************)
VARIABLES
    tableExists,    \* the database: whether the table has been created
    store,          \* the database: the bag of the rows of the table
    pc,             \* fetch_data_stream: the position of the current run
    dates,          \* fetch_data_stream: the list of dates of the run
    idx,            \* fetch_data_stream: date_idx + 1
    events,         \* the frames the run has yielded, in order
    counts,         \* success_count, skip_count, fail_count
    connOpen,       \* whether the run's connection is open
    token,          \* DataFetcher.token
    tpc,            \* per endpoint: the position of its fetch_endpoint call
    hdr,            \* per endpoint: the token its Authorization header carries
    resp,           \* per endpoint: the kind of response its GET received
    ngets,          \* per endpoint: the number of GETs sent for the call
    results,        \* per endpoint: the value its fetch_endpoint call returned
    row_data,       \* the row process_data returned for the current date
    attempts,       \* the dates for which the run has called insert_data
    refreshes,      \* the event counts at which the run refreshed the token
    reached,        \* per date the run reached: what its duplicate check met
    ignored,        \* the days for which the run's INSERT IGNORE affected no row
    other,          \* the insert_data call of a concurrent run, if one is under way
    call,           \* the arguments of a function applied on its own
    ret             \* and what it has returned so far

vars == <<tableExists, store, pc, dates, idx, events, counts, connOpen, token,
          tpc, hdr, resp, ngets, results, row_data, attempts, refreshes,
          reached, ignored, other, call, ret>>

dbVars == <<tableExists, store, ignored>>
fanVars == <<tpc, hdr, resp, ngets, results>>
pureVars == <<call, ret>>

\* the endpoints of the fan-out
EPS == 1..NumEndpoints

NoToken == "<None>"
Tokens == {"tA"}

NoRow == [c \in {} |-> ""]
NoCall == [op |-> "none"]
NoRet == [stage |-> "none"]

\* the time datetime.now() returns
Clock == "2024-01-05 10:00:00"

Ended == {"done", "aborted", "crashed"}

(***************************************************************************)
(* The event frames of fetch_data_stream.                                  *)
(***************************************************************************)
Ev(type, day, ep, status) == [type |-> type, day |-> day, ep |-> ep, status |-> status]
Log(msg) == Ev("log", 0, "", msg)

(***************************************************************************)
(* DataFetcher.get_token.                                                  *)
(***************************************************************************)
\* the answers to POST generateToken: a 200 whose body is a dict with a token
\* field or a bare string; a 200 whose body is a dict without a token; a 200
\* whose body is other JSON (a list, a number, null); and a failure (another
\* status, a transport exception, a body that is no JSON)
TokenResponses ==
    [k : {"token"}, t : Tokens] \cup
    [k : {"dict_no_token", "other_json", "fail"}, t : {NoToken}]

\* get_token(): the token held afterwards and the value returned
get_token(held, r) ==
    CASE r.k = "token" -> [token |-> r.t, ok |-> TRUE]
      [] r.k = "dict_no_token" -> [token |-> NoToken, ok |-> FALSE]
      [] r.k = "other_json" -> [token |-> held, ok |-> held # NoToken]
      [] r.k = "fail" -> [token |-> held, ok |-> FALSE]

(***************************************************************************)
(* DataFetcher.fetch_endpoint.                                             *)
(***************************************************************************)
\* the keys process_data reads from an endpoint's result
KeysOf(ep) ==
    {RULES[i].key : i \in {j \in DOMAIN RULES : RULES[j].ep = ep}} \cup
    {RULES[i].fb : i \in {j \in DOMAIN RULES : RULES[j].ep = ep /\ RULES[j].fb # ""}}

\* a well-formed record of an endpoint
OkObj(ep) ==
    IF KeysOf(ep) = {} THEN JObj([k \in {"count"} |-> JStr("7")])
    ELSE JObj([k \in KeysOf(ep) |-> JStr("7")])

\* the answers to an endpoint GET
ResponseKinds == {"ok", "scalar", "empty", "badjson", "s401", "s404", "timeout"}

\* the answers the session's adapter retries: a status of status_forcelist,
\* no answer within the timeout
Transient == {"s503", "timeout"}

\* Retry(total=2, ...): the retries of the adapter mounted on the session
RetryTotal == 2

\* the GETs the adapter sends for one session.get at most
MaxAttempts == 1 + RetryTotal

\* the status of an answer; 0 stands for no answer (a transport exception)
StatusOf(kind) ==
    CASE kind \in {"ok", "scalar", "empty", "badjson"} -> 200
      [] kind = "s401" -> 401
      [] kind = "s404" -> 404
      [] kind = "s503" -> 503
      [] kind = "timeout" -> 0

\* the JSON body of an answer with status 200 (badjson has none)
BodyOf(kind, ep) ==
    CASE kind = "ok" -> JArr(<<OkObj(ep)>>)
      [] kind = "scalar" -> JObj([k \in {"data"} |-> JArr(<<JNum("5")>>)])
      [] kind = "empty" -> JArr(<<>>)

\* a faulty fetch_endpoint: every answer that is not a 200 has it call get_token
OnResponseRefreshAll(kind, ep) ==
    [result |-> IF StatusOf(kind) = 200 /\ kind # "badjson"
                THEN Normalize(BodyOf(kind, ep)) ELSE Null,
     refresh |-> StatusOf(kind) # 200]

\* what fetch_endpoint does with the answer to its GET: the value it returns
\* and whether it calls get_token first
OnResponse(kind, ep) ==
    [result |-> IF StatusOf(kind) = 200 /\ kind # "badjson"
                THEN Normalize(BodyOf(kind, ep)) ELSE Null,
     refresh |-> StatusOf(kind) = 401]

(***************************************************************************)
(* DatabaseManager.                                                        *)
(***************************************************************************)
DateOf(row) == row["data_date"]

\* SELECT COUNT(*) ... WHERE data_date = %s, then count > 0
HasDate(st, d) == \E row \in BagToSet(st) : DateOf(row) = d

\* a faulty table: no unique key on data_date, so every INSERT adds its row
InsertAlways(st, row) == st (+) SetToBag({row})

\* INSERT IGNORE under UNIQUE KEY unique_date_idx (data_date): the rows
\* afterwards
InsertIgnore(st, row) ==
    IF HasDate(st, DateOf(row)) THEN st ELSE st (+) SetToBag({row})

\* a faulty check_duplicate: it reports a stored date even when its query raises
check_duplicate_any(st, d, err) == HasDate(st, d)

\* check_duplicate(conn, data_date); err: the query raises Error
check_duplicate(st, d, err) == IF err THEN FALSE ELSE HasDate(st, d)

\* what a duplicate check met: no row of the date, a row it counted, or a row
\* while its query raised
Met(st, d, err) ==
    IF ~HasDate(st, d) THEN "absent" ELSE IF err THEN "present_err" ELSE "present"

\* get_record_count(conn); err: the query raises
get_record_count(st, err) == IF err THEN 0 ELSE BagCardinality(st)

(***************************************************************************)
(* Initial state.                                                          *)
(***************************************************************************)
IdleRun ==
    /\ dates = <<>>
    /\ idx = 0
    /\ events = <<>>
    /\ counts = [success |-> 0, skipped |-> 0, failed |-> 0, total |-> 0]
    /\ connOpen = FALSE
    /\ token = NoToken
    /\ tpc = [e \in EPS |-> "idle"]
    /\ hdr = [e \in EPS |-> NoToken]
    /\ resp = [e \in EPS |-> "none"]
    /\ ngets = [e \in EPS |-> 0]
    /\ results = [e \in EPS |-> Null]
    /\ row_data = NoRow
    /\ attempts = <<>>
    /\ refreshes = <<>>
    /\ reached = <<>>

Init ==
    /\ tableExists \in BOOLEAN
    /\ store = EmptyBag
    /\ ignored = {}
    /\ pc = "idle"
    /\ IdleRun
    /\ other = [pc |-> "idle", day |-> 0]
    /\ call = NoCall
    /\ ret = NoRet

(***************************************************************************)
(* fetch_data_stream: from the request to the first date.                  *)
(***************************************************************************)
\* a faulty loop of fetch_range: `while current < to_dt`
DateListHalfOpen(from, to) == [i \in 1..(to - from) |-> from + i - 1]

\* the dates fetch_range builds for from_date..to_date, and [today] of
\* fetch_today when both are the same day
DateList(from, to) == [i \in 1..(to - from + 1) |-> from + i - 1]

\* fetch_data_stream(ds) begins: DataFetcher(), get_connection()
Started(ds, connected) ==
    /\ dates' = ds
    /\ idx' = 0
    /\ counts' = [success |-> 0, skipped |-> 0, failed |-> 0, total |-> 0]
    /\ token' = NoToken
    /\ tpc' = [e \in EPS |-> "idle"]
    /\ hdr' = [e \in EPS |-> NoToken]
    /\ resp' = [e \in EPS |-> "none"]
    /\ ngets' = [e \in EPS |-> 0]
    /\ results' = [e \in EPS |-> Null]
    /\ row_data' = NoRow
    /\ attempts' = <<>>
    /\ refreshes' = <<>>
    /\ reached' = <<>>
    /\ connOpen' = connected
    /\ IF connected
       THEN /\ events' = <<Log("Checking database table...")>>
            /\ pc' = "ensure"
       ELSE /\ events' = <<Ev("error", 0, "", "Database connection failed")>>
            /\ pc' = "aborted"
    /\ UNCHANGED <<dbVars, other>>

\* a request whose dates are the days from..to: the run is created
StartRun(from, to, connected) ==
    /\ pc = "idle"
    /\ from <= to
    /\ Started(DateList(from, to), connected)
    /\ UNCHANGED pureVars

\* texts that strptime(text, "%Y-%m-%d") does not read: other separators,
\* another order of the fields, a day the month does not have, no text
Malformed == {"2024/01/01", "31-12-2023", "2024-02-30", ""}

\* the from_date and to_date a DateRangeRequest can carry
RequestTexts ==
    {Calendar[d].s : d \in Days} \cup {Calendar[d].u : d \in Days} \cup Malformed

\* datetime.strptime(text, "%Y-%m-%d"): the day read, 0 for ValueError
strptime(text) ==
    IF \E d \in DOMAIN Calendar : text \in {Calendar[d].s, Calendar[d].u}
    THEN CHOOSE d \in DOMAIN Calendar : text \in {Calendar[d].s, Calendar[d].u}
    ELSE 0

\* raise HTTPException(400, detail): the request is answered, no run is created
Rejected(detail) ==
    /\ ret' = [stage |-> "done", status |-> 400, detail |-> detail]
    /\ pc' = "rejected"
    /\ UNCHANGED <<dbVars, dates, idx, events, counts, connOpen, token, fanVars,
                   row_data, attempts, refreshes, reached, other>>

\* POST /api/fetch/range
fetch_range(from_date, to_date, connected) ==
    /\ pc = "idle"
    /\ call' = [op |-> "fetch_range", from_date |-> from_date, to_date |-> to_date]
    /\ LET from_dt == strptime(from_date)
           to_dt == strptime(to_date)
       IN  IF from_dt = 0 \/ to_dt = 0
           THEN Rejected("Invalid date format. Use YYYY-MM-DD")
           ELSE IF from_dt > to_dt
           THEN Rejected("From date cannot be after To date")
           ELSE /\ Started(DateList(from_dt, to_dt), connected)
                /\ ret' = [stage |-> "done", status |-> 200]

\* ensure_table_exists(conn): e1, e2, e3 say whether SHOW TABLES, CREATE
\* TABLE IF NOT EXISTS and the verifying SHOW TABLES raise
EnsureTable(e1, e2, e3) ==
    /\ pc = "ensure"
    /\ LET found == tableExists /\ ~e1
           created == ~found /\ ~e2
           ok == found \/ (created /\ ~e3)
       IN  /\ tableExists' = (tableExists \/ created)
           /\ IF ok
              THEN /\ events' = events \o
                        <<Log("Database table ready"),
                          Ev("start", 0, "", ""),
                          Log("Getting API token...")>>
                   /\ pc' = "token"
                   /\ UNCHANGED connOpen
              ELSE /\ events' = Append(events,
                        Ev("error", 0, "", "Failed to create database table"))
                   /\ connOpen' = FALSE
                   /\ pc' = "aborted"
    /\ UNCHANGED <<store, ignored, dates, idx, counts, token, fanVars, row_data,
                   attempts, refreshes, reached, other, pureVars>>

\* the first token exchange
FirstToken(r) ==
    /\ pc = "token"
    /\ LET g == get_token(token, r)
       IN  /\ token' = g.token
           /\ IF g.ok
              THEN /\ events' = Append(events, Log("Token obtained successfully"))
                   /\ idx' = 1
                   /\ pc' = "date"
              ELSE /\ events' = Append(events,
                        Ev("error", 0, "", "Failed to get API token"))
                   /\ pc' = "aborted"
                   /\ UNCHANGED idx
    /\ UNCHANGED <<dbVars, dates, counts, connOpen, fanVars, row_data,
                   attempts, refreshes, reached, other, pureVars>>

(***************************************************************************)
(* fetch_data_stream: one date.                                            *)
(***************************************************************************)
\* where the loop goes after the date at position i
AfterDate(i) == IF i + 1 > Len(dates) THEN "finish" ELSE "date"

EndpointStarts == [e \in EPS |-> Ev("endpoint_start", dates[idx], ENDPOINTS[e], "")]

\* a faulty head of the loop body: a skipped date is reported as done as well
DateStepSkipDone(err) ==
    /\ pc = "date"
    /\ LET day == dates[idx]
           start == Ev("date_start", day, "", "")
       IN  IF check_duplicate(store, Calendar[day].s, err)
           THEN /\ events' = events \o
                     <<start, Ev("date_skip", day, "", "Already exists in database"),
                       Ev("date_done", day, "", "failed")>>
                /\ counts' = [counts EXCEPT !.skipped = @ + 1]
                /\ idx' = idx + 1
                /\ pc' = AfterDate(idx)
                /\ UNCHANGED fanVars
           ELSE /\ events' = events \o
                     <<start, Log("Fetching all endpoints concurrently")>> \o
                     EndpointStarts
                /\ tpc' = [e \in EPS |-> "start"]
                /\ hdr' = [e \in EPS |-> NoToken]
                /\ resp' = [e \in EPS |-> "none"]
                /\ ngets' = [e \in EPS |-> 0]
                /\ results' = [e \in EPS |-> Null]
                /\ pc' = "fanout"
                /\ UNCHANGED <<counts, idx>>
    /\ reached' = Append(reached, Met(store, Calendar[dates[idx]].s, err))
    /\ UNCHANGED <<dbVars, dates, connOpen, token, row_data, attempts,
                   refreshes, other, pureVars>>

\* the head of the loop body: date_start, then the duplicate check; err: the
\* query of check_duplicate raises Error
DateStep(err) ==
    /\ pc = "date"
    /\ LET day == dates[idx]
           start == Ev("date_start", day, "", "")
       IN  IF check_duplicate(store, Calendar[day].s, err)
           THEN /\ events' = events \o
                     <<start, Ev("date_skip", day, "", "Already exists in database")>>
                /\ counts' = [counts EXCEPT !.skipped = @ + 1]
                /\ idx' = idx + 1
                /\ pc' = AfterDate(idx)
                /\ UNCHANGED fanVars
           ELSE /\ events' = events \o
                     <<start, Log("Fetching all endpoints concurrently")>> \o
                     EndpointStarts
                /\ tpc' = [e \in EPS |-> "start"]
                /\ hdr' = [e \in EPS |-> NoToken]
                /\ resp' = [e \in EPS |-> "none"]
                /\ ngets' = [e \in EPS |-> 0]
                /\ results' = [e \in EPS |-> Null]
                /\ pc' = "fanout"
                /\ UNCHANGED <<counts, idx>>
    /\ reached' = Append(reached, Met(store, Calendar[dates[idx]].s, err))
    /\ UNCHANGED <<dbVars, dates, connOpen, token, row_data, attempts,
                   refreshes, other, pureVars>>

runFrame == <<dbVars, pc, dates, idx, events, counts, connOpen, row_data,
              attempts, refreshes, reached, other, pureVars>>

\* fetch_endpoint begins: `if not self.token`
FetchStart(e) ==
    /\ pc = "fanout"
    /\ tpc[e] = "start"
    /\ tpc' = [tpc EXCEPT ![e] = IF token # NoToken THEN "hdr" ELSE "tok"]
    /\ UNCHANGED <<token, hdr, resp, ngets, results, runFrame>>

\* `and not self.get_token(): return None`
FetchToken(e, r) ==
    /\ pc = "fanout"
    /\ tpc[e] = "tok"
    /\ LET g == get_token(token, r)
       IN  /\ token' = g.token
           /\ IF g.ok
              THEN /\ tpc' = [tpc EXCEPT ![e] = "hdr"]
                   /\ UNCHANGED <<resp, results>>
              ELSE /\ tpc' = [tpc EXCEPT ![e] = "done"]
                   /\ resp' = [resp EXCEPT ![e] = "no_token"]
                   /\ results' = [results EXCEPT ![e] = Null]
    /\ UNCHANGED <<hdr, ngets, runFrame>>

\* the headers are built from self.token and the GET is sent
FetchSend(e) ==
    /\ pc = "fanout"
    /\ tpc[e] = "hdr"
    /\ hdr' = [hdr EXCEPT ![e] = token]
    /\ ngets' = [ngets EXCEPT ![e] = @ + 1]
    /\ tpc' = [tpc EXCEPT ![e] = "get"]
    /\ UNCHANGED <<token, resp, results, runFrame>>

\* a faulty fan-out: the endpoint_done frame of a call is yielded as soon as
\* the call has its answer
FetchReceiveReports(e, kind) ==
    /\ pc = "fanout"
    /\ tpc[e] = "get"
    /\ resp' = [resp EXCEPT ![e] = kind]
    /\ hdr' = [hdr EXCEPT ![e] = NoToken]
    /\ events' = Append(events, Ev("endpoint_done", dates[idx], ENDPOINTS[e], ""))
    /\ LET o == OnResponse(kind, ENDPOINTS[e])
       IN  IF o.refresh
           THEN /\ tpc' = [tpc EXCEPT ![e] = "refresh"]
                /\ UNCHANGED results
           ELSE /\ tpc' = [tpc EXCEPT ![e] = "done"]
                /\ results' = [results EXCEPT ![e] = o.result]
    /\ UNCHANGED <<token, ngets, dbVars, pc, dates, idx, counts, connOpen, row_data,
                   attempts, refreshes, reached, other, pureVars>>

\* session.get returns or raises: the GET is answered for fetch_endpoint
\* (a transient answer: after the retries of the adapter)
FetchReceive(e, kind) ==
    /\ pc = "fanout"
    /\ tpc[e] = "get"
    /\ resp' = [resp EXCEPT ![e] = kind]
    /\ hdr' = [hdr EXCEPT ![e] = NoToken]
    /\ LET o == OnResponse(kind, ENDPOINTS[e])
       IN  IF o.refresh
           THEN /\ tpc' = [tpc EXCEPT ![e] = "refresh"]
                /\ UNCHANGED results
           ELSE /\ tpc' = [tpc EXCEPT ![e] = "done"]
                /\ results' = [results EXCEPT ![e] = o.result]
    /\ UNCHANGED <<token, ngets, runFrame>>

\* a faulty adapter: Retry(total=4)
FetchRetryFive(e) ==
    /\ pc = "fanout"
    /\ tpc[e] = "get"
    /\ ngets[e] < 5
    /\ ngets' = [ngets EXCEPT ![e] = @ + 1]
    /\ UNCHANGED <<token, tpc, hdr, resp, results, runFrame>>

\* inside session.get: an attempt got a transient answer and the adapter sends
\* the GET again, with the same headers, while retries are left
FetchRetry(e) ==
    /\ pc = "fanout"
    /\ tpc[e] = "get"
    /\ ngets[e] < MaxAttempts
    /\ ngets' = [ngets EXCEPT ![e] = @ + 1]
    /\ UNCHANGED <<token, tpc, hdr, resp, results, runFrame>>

\* session.get ends when its attempts are taken one by one: a transient
\* answer reaches fetch_endpoint only when no retry is left
FetchDeliver(e, kind) ==
    /\ kind \in Transient => ngets[e] = MaxAttempts
    /\ FetchReceive(e, kind)

\* `elif resp.status_code == 401: self.get_token()`, then `return None`
FetchRefresh(e, r) ==
    /\ pc = "fanout"
    /\ tpc[e] = "refresh"
    /\ token' = get_token(token, r).token
    /\ tpc' = [tpc EXCEPT ![e] = "done"]
    /\ results' = [results EXCEPT ![e] = Null]
    /\ UNCHANGED <<hdr, resp, ngets, runFrame>>

\* fetch_endpoint(endpoint_path, start_date, end_date) run without
\* interruption from a held token: the token held afterwards and the value
\* returned; r1 answers the token exchange at its start, kind answers the GET,
\* r2 answers the token exchange after a 401
fetch_endpoint(held, ep, r1, kind, r2) ==
    LET g == IF held # NoToken THEN [token |-> held, ok |-> TRUE]
             ELSE get_token(held, r1)
        o == OnResponse(kind, ep)
    IN  IF ~g.ok THEN [token |-> g.token, result |-> Null]
        ELSE IF o.refresh
        THEN [token |-> get_token(g.token, r2).token, result |-> Null]
        ELSE [token |-> g.token, result |-> o.result]

TokenValues == Tokens \cup {NoToken}

\* what one call can leave, over every answer of the remote side
Outcomes ==
    [held \in TokenValues, e \in EPS |->
        {fetch_endpoint(held, ENDPOINTS[e], r1, kind, r2) :
            r1 \in TokenResponses, kind \in ResponseKinds, r2 \in TokenResponses}]

\* what the calls of the endpoints in `todo`, run one after another in some
\* order, can leave, from the state s = [token, results]
RECURSIVE SerialRuns(_, _)
SerialRuns(s, todo) ==
    IF todo = {} THEN {s}
    ELSE UNION {UNION {SerialRuns([token |-> o.token,
                                   results |-> [s.results EXCEPT ![e] = o.result]],
                                  todo \ {e}) :
                          o \in Outcomes[s.token, e]} :
                   e \in todo}

\* what the calls of a fan-out, run one after another in some order, can
\* leave, for every token held at its start
SerialOutcomes ==
    [held \in TokenValues |->
        SerialRuns([token |-> held, results |-> [e \in EPS |-> Null]], EPS)]

\* a faulty loop over the gathered results: it yields endpoint_done only for
\* the calls that returned data
EndpointDonesOfData(res) ==
    LET done == [e \in EPS |-> Ev("endpoint_done", dates[idx], ENDPOINTS[e], "")]
        HasData(ev) == \E e \in EPS : ev.ep = ENDPOINTS[e] /\ Truthy(res[e])
    IN  SelectSeq(done, HasData)

\* the endpoint_done frames of the loop over the gathered results (without
\* their status, which is Truthy(res[e]))
EndpointDones(res) ==
    [e \in EPS |-> Ev("endpoint_done", dates[idx], ENDPOINTS[e], "")]

\* a faulty join: it returns as soon as one call has completed
JoinAny ==
    /\ pc = "fanout"
    /\ \E e \in EPS : tpc[e] = "done"
    /\ events' = events \o EndpointDones(results)
    /\ pc' = "assemble"
    /\ UNCHANGED <<dbVars, dates, idx, counts, connOpen, token, fanVars,
                   row_data, attempts, refreshes, reached, other, pureVars>>

\* asyncio.gather returns; the endpoint_done frames
Join ==
    /\ pc = "fanout"
    /\ \A e \in EPS : tpc[e] = "done"
    /\ events' = events \o EndpointDones(results)
    /\ pc' = "assemble"
    /\ UNCHANGED <<dbVars, dates, idx, counts, connOpen, token, fanVars,
                   row_data, attempts, refreshes, reached, other, pureVars>>

\* all_data as the loop over the gathered results builds it
AllData(res) ==
    [n \in {ENDPOINTS[e] : e \in EPS} |-> res[CHOOSE e \in EPS : ENDPOINTS[e] = n]]

\* the values a fetch_endpoint call of an endpoint can return
ResultsOf(e) == {OnResponse(kind, ENDPOINTS[e]).result : kind \in ResponseKinds}

\* row_data = fetcher.process_data(all_data, data_date, data_date, data_date)
\* for every vector of gathered results and every day
Assembly ==
    [res \in [EPS -> UNION {ResultsOf(e) : e \in EPS}], day \in Days |->
        process_data(AllData(res), day, day, day, Clock)]

\* a faulty test: the refresh is made after the last date as well
MoreDatesAlways == TRUE

\* `if date_idx < len(dates) - 1`: more dates remain after the current one
MoreDates == idx < Len(dates)

\* after the endpoint_done frames, with token tok held, results res gathered
\* and frames evs yielded: the token refresh when more dates remain (answered
\* by r; for the last date there is no exchange, and r is fixed to one value
\* that is not read), then process_data, up to the call of insert_data
Assembled(tok, res, evs, r) ==
    /\ IF MoreDates
       THEN /\ token' = get_token(tok, r).token
            /\ refreshes' = Append(refreshes, Len(evs))
       ELSE /\ r.k = "fail"
            /\ token' = tok
            /\ UNCHANGED refreshes
    /\ events' = Append(evs, Log("Processing data"))
    /\ LET pd == Assembly[res, dates[idx]]
       IN  IF pd.raised
           THEN /\ pc' = "crashed"
                /\ UNCHANGED <<row_data, attempts>>
           ELSE /\ row_data' = pd.row
                /\ attempts' = Append(attempts, dates[idx])
                /\ pc' = "insert_check"
    /\ tpc' = [e \in EPS |-> "idle"]
    /\ hdr' = [e \in EPS |-> NoToken]
    /\ resp' = [e \in EPS |-> "none"]
    /\ ngets' = [e \in EPS |-> 0]
    /\ results' = res
    /\ UNCHANGED <<dbVars, dates, idx, counts, connOpen, reached, other, pureVars>>

\* the steps after the join of a fan-out whose calls interleaved
Assemble(r) ==
    /\ pc = "assemble"
    /\ Assembled(token, results, events, r)

\* a fan-out whose calls run one after another, from gather to the call of
\* insert_data
FanOut(r) ==
    /\ pc = "fanout"
    /\ \A e \in EPS : tpc[e] = "start"
    /\ \E s \in SerialOutcomes[token] :
            Assembled(s.token, s.results, events \o EndpointDones(s.results), r)

\* a faulty end of the loop body: a failed date is not counted
DateDoneUncounted(inserted) ==
    /\ events' = Append(events,
            Ev("date_done", dates[idx], "", IF inserted THEN "success" ELSE "failed"))
    /\ counts' = IF inserted THEN [counts EXCEPT !.success = @ + 1] ELSE counts
    /\ idx' = idx + 1
    /\ pc' = AfterDate(idx)
    /\ row_data' = NoRow
    /\ results' = [e \in EPS |-> Null]

\* a faulty end of the loop body: the loop passes over the date that follows
DateDoneSkipsNext(inserted) ==
    /\ events' = Append(events,
            Ev("date_done", dates[idx], "", IF inserted THEN "success" ELSE "failed"))
    /\ counts' = IF inserted THEN [counts EXCEPT !.success = @ + 1]
                 ELSE [counts EXCEPT !.failed = @ + 1]
    /\ idx' = idx + 2
    /\ pc' = AfterDate(idx + 1)
    /\ row_data' = NoRow
    /\ results' = [e \in EPS |-> Null]

\* the end of the loop body for a date whose insert_data returned `inserted`
DateDone(inserted) ==
    /\ events' = Append(events,
            Ev("date_done", dates[idx], "", IF inserted THEN "success" ELSE "failed"))
    /\ counts' = IF inserted THEN [counts EXCEPT !.success = @ + 1]
                 ELSE [counts EXCEPT !.failed = @ + 1]
    /\ idx' = idx + 1
    /\ pc' = AfterDate(idx)
    /\ row_data' = NoRow
    /\ results' = [e \in EPS |-> Null]

\* insert_data: the duplicate check before the insert
InsertCheck(err) ==
    /\ pc = "insert_check"
    /\ IF check_duplicate(store, DateOf(row_data), err)
       THEN DateDone(FALSE)
       ELSE /\ pc' = "insert_exec"
            /\ UNCHANGED <<idx, events, counts, row_data, results>>
    /\ UNCHANGED <<dbVars, dates, connOpen, token, tpc, hdr, resp, ngets,
                   attempts, refreshes, reached, other, pureVars>>

\* a faulty insert_data: it returns True whenever the statement did not raise
InsertExecBlind(err) ==
    /\ pc = "insert_exec"
    /\ store' = IF err THEN store ELSE InsertIgnore(store, row_data)
    /\ ignored' = IF ~err /\ store' = store THEN ignored \cup {dates[idx]} ELSE ignored
    /\ DateDone(~err)
    /\ UNCHANGED <<tableExists, dates, connOpen, token, tpc, hdr, resp, ngets,
                   attempts, refreshes, reached, other, pureVars>>

\* insert_data: INSERT IGNORE, commit, rowcount; err: the statement raises
InsertExec(err) ==
    /\ pc = "insert_exec"
    /\ store' = IF err THEN store ELSE InsertIgnore(store, row_data)
    /\ ignored' = IF ~err /\ store' = store THEN ignored \cup {dates[idx]} ELSE ignored
    /\ DateDone(BagCardinality(store') - BagCardinality(store) > 0)
    /\ UNCHANGED <<tableExists, dates, connOpen, token, tpc, hdr, resp, ngets,
                   attempts, refreshes, reached, other, pureVars>>

\* after the loop: get_record_count, close, complete
Finish(err) ==
    /\ pc = "finish"
    /\ counts' = [counts EXCEPT !.total = get_record_count(store, err)]
    /\ connOpen' = FALSE
    /\ events' = Append(events, Ev("complete", 0, "", ""))
    /\ pc' = "done"
    /\ UNCHANGED <<dbVars, dates, idx, token, fanVars, row_data, attempts,
                   refreshes, reached, other, pureVars>>

(***************************************************************************)
(* insert_data called by another run on its own connection.                *)
(***************************************************************************)
\* the row the other run assembled for a day: every endpoint without data
OtherRow ==
    [day \in Days |->
        process_data([n \in Range(ENDPOINTS) |-> Null], day, day, day, Clock).row]

OtherCheck(day, err) ==
    /\ pc \notin Ended
    /\ other.pc = "idle"
    /\ tableExists
    /\ ~check_duplicate(store, Calendar[day].s, err)
    /\ other' = [pc |-> "insert", day |-> day]
    /\ UNCHANGED <<dbVars, pc, dates, idx, events, counts, connOpen, token,
                   fanVars, row_data, attempts, refreshes, reached, pureVars>>

OtherInsert(err) ==
    /\ pc \notin Ended
    /\ other.pc = "insert"
    /\ store' = IF err THEN store ELSE InsertIgnore(store, OtherRow[other.day])
    /\ UNCHANGED ignored
    /\ other' = [other EXCEPT !.pc = "idle", !.day = 0]
    /\ UNCHANGED <<tableExists, pc, dates, idx, events, counts, connOpen,
                   token, fanVars, row_data, attempts, refreshes, reached, pureVars>>

(***************************************************************************)
(* The specifications.                                                     *)
(***************************************************************************)
\* the steps of a run outside the fan-out
RunStep ==
    \/ \E e1 \in BOOLEAN, e2 \in BOOLEAN, e3 \in BOOLEAN : EnsureTable(e1, e2, e3)
    \/ \E r \in TokenResponses : FirstToken(r)
    \/ \E err \in BOOLEAN : DateStep(err)
    \/ \E err \in BOOLEAN : InsertCheck(err)
    \/ \E err \in BOOLEAN : InsertExec(err)
    \/ \E err \in BOOLEAN : Finish(err)

\* a run over a range of dates beside the inserts of a concurrent run; the
\* calls of a fan-out run one after another
Next ==
    \/ \E from \in Days, to \in Days, c \in BOOLEAN : StartRun(from, to, c)
    \/ RunStep
    \/ \E r \in TokenResponses : FanOut(r)
    \/ \E day \in Days, err \in BOOLEAN : OtherCheck(day, err)
    \/ \E err \in BOOLEAN : OtherInsert(err)

Spec == Init /\ [][Next]_vars

\* a run over one date; the calls of its fan-out interleave step by step
NextFan ==
    \/ \E day \in Days, c \in BOOLEAN : StartRun(day, day, c)
    \/ RunStep
    \/ \E e \in EPS : FetchStart(e)
    \/ \E e \in EPS, r \in TokenResponses : FetchToken(e, r)
    \/ \E e \in EPS : FetchSend(e)
    \/ \E e \in EPS, kind \in ResponseKinds : FetchReceive(e, kind)
    \/ \E e \in EPS, r \in TokenResponses : FetchRefresh(e, r)
    \/ Join
    \/ \E r \in TokenResponses : Assemble(r)

SpecFan == Init /\ [][NextFan]_vars

\* the steps of the fetch_endpoint call of an endpoint
FetchStep(e) ==
    \/ FetchStart(e)
    \/ \E r \in TokenResponses : FetchToken(e, r)
    \/ FetchSend(e)
    \/ \E kind \in ResponseKinds : FetchReceive(e, kind)
    \/ \E r \in TokenResponses : FetchRefresh(e, r)

\* the same run when every call that can take a step eventually takes one
\* (each worker thread runs, the token exchange has timeout=30 and the GET
\* timeout=10) and the event loop resumes the coroutine once gather is done
SpecFanFair ==
    /\ Init /\ [][NextFan]_vars
    /\ \A e \in EPS : WF_vars(FetchStep(e))
    /\ WF_vars(Join)

\* the answers to the attempts of a GET when the retries of the adapter are
\* taken one by one: a record, a status of status_forcelist, no answer
RetryKinds == {"ok", "s503", "timeout"}

\* a run over one date whose calls interleave step by step, with every GET
\* the adapter sends a step of its own; no GET is answered by a 401, so the
\* token of the first exchange is held throughout
NextRetry ==
    \/ \E day \in Days, c \in BOOLEAN : StartRun(day, day, c)
    \/ RunStep
    \/ \E e \in EPS : FetchStart(e)
    \/ \E e \in EPS : FetchSend(e)
    \/ \E e \in EPS : FetchRetry(e)
    \/ \E e \in EPS, kind \in RetryKinds : FetchDeliver(e, kind)
    \/ Join
    \/ \E r \in TokenResponses : Assemble(r)

\* the steps of the fetch_endpoint call of an endpoint in such a run
RetryStep(e) ==
    \/ FetchStart(e)
    \/ FetchSend(e)
    \/ \E kind \in RetryKinds : FetchDeliver(e, kind)

\* every call that can take a step other than one more retry eventually
\* takes one: each worker thread runs and the GET has timeout=10
SpecRetry ==
    /\ Init /\ [][NextRetry]_vars
    /\ \A e \in EPS : WF_vars(RetryStep(e))
    /\ WF_vars(Join)

\* a run over the dates of a range request; the calls of a fan-out run one
\* after another
NextRange ==
    \/ \E from_date \in RequestTexts, to_date \in RequestTexts, c \in BOOLEAN :
            fetch_range(from_date, to_date, c)
    \/ RunStep
    \/ \E r \in TokenResponses : FanOut(r)

SpecRange == Init /\ [][NextRange]_vars

\* the answers to an endpoint GET in a run over several dates whose calls
\* interleave: a record, a 401, no answer
SeqKinds == {"ok", "s401", "timeout"}

\* a run over a range of dates on a connection that opened; the calls of each
\* fan-out interleave step by step
NextSeq ==
    \/ \E from \in Days, to \in Days : StartRun(from, to, TRUE)
    \/ RunStep
    \/ \E e \in EPS : FetchStart(e)
    \/ \E e \in EPS, r \in TokenResponses : FetchToken(e, r)
    \/ \E e \in EPS : FetchSend(e)
    \/ \E e \in EPS, kind \in SeqKinds : FetchReceive(e, kind)
    \/ \E e \in EPS, r \in TokenResponses : FetchRefresh(e, r)
    \/ Join
    \/ \E r \in TokenResponses : Assemble(r)

SpecSeq == Init /\ [][NextSeq]_vars

(***************************************************************************)
(* get_token, the body handling of fetch_endpoint with process_data, and   *)
(* the final pass of process_data, each applied on its own.                *)
(***************************************************************************)
\* the values a field of a JSON record, or a bare element of a list, can hold
FieldValues ==
    {JStr("7"), JStr(""), Null, JStr("N/A"), JStr("Not Found"), JStr("-"),
     JNum("0"), JStr("0.0"), JStr("NaN"), JStr("null")}

\* the shapes of a 200 body
BodyShapes ==
    {"list_obj", "list_scalar", "obj", "wrapped_obj", "wrapped_scalar",
     "empty_list", "empty_obj"}

\* a record of an endpoint whose fields all hold v
RecordOf(ep, v) ==
    JObj([k \in (IF KeysOf(ep) = {} THEN {"count"} ELSE KeysOf(ep)) |-> v])

\* the body of a shape for an endpoint
BodyFor(shape, ep, v) ==
    CASE shape = "list_obj" -> JArr(<<RecordOf(ep, v)>>)
      [] shape = "list_scalar" -> JArr(<<v>>)
      [] shape = "obj" -> RecordOf(ep, v)
      [] shape = "wrapped_obj" -> JObj([k \in {"result"} |-> JArr(<<RecordOf(ep, v)>>)])
      [] shape = "wrapped_scalar" -> JObj([k \in {"data"} |-> JArr(<<v>>)])
      [] shape = "empty_list" -> JArr(<<>>)
      [] shape = "empty_obj" -> JObj(EmptyMap)

\* the values a row can hold before the final pass
RawValues ==
    {Null, JStr(""), JStr("7"), JStr("NA"), JStr("N/A"), JStr("null"),
     JStr("NULL"), JStr("None"), JStr("-"), JStr("Not Found"),
     JStr("Not Available"), JNum("0"), JStr("NaN"), JStr("Bihar")}

\* a key that the record does not have
Absent == [t |-> "absent"]

\* what a key of a record can hold, or lack
KeyValues == FieldValues \cup {Absent, JStr("40"), JStr("NULL"), JStr("NA")}

\* a record of an endpoint whose primary keys hold v and whose fallback keys
\* hold w, each left out when Absent
PairRecord(ep, v, w) ==
    LET rules == {i \in DOMAIN RULES : RULES[i].ep = ep}
        prim == IF v = Absent THEN {} ELSE {RULES[i].key : i \in rules}
        fall == IF w = Absent THEN {}
                ELSE {RULES[i].fb : i \in {j \in rules : RULES[j].fb # ""}}
    IN  JObj([k \in prim \cup fall |-> IF k \in prim THEN v ELSE w])

\* the elements of a list of a body: two records, a number, null
Elements ==
    {JObj([k \in {"count"} |-> JStr("7")]), JObj([k \in {"count"} |-> JStr("8")]),
     JNum("5"), Null}

\* the lists of a body with up to two elements
ElementLists ==
    {JArr(<<>>)} \cup {JArr(<<a>>) : a \in Elements} \cup
    {JArr(<<a, b>>) : a \in Elements, b \in Elements}

\* what a wrapper key of a dict body can hold, or lack
WrapperValues ==
    {Absent, JArr(<<>>), JStr("x")} \cup {JArr(<<a>>) : a \in Elements}

\* a dict body with the given values under the wrapper keys and one more field
DictBody(w) ==
    JObj([k \in {WRAPPER_KEYS[i] : i \in {j \in DOMAIN WRAPPER_KEYS : w[j] # Absent}}
                \cup {"count"} |->
            IF k = "count" THEN JStr("9")
            ELSE w[CHOOSE i \in DOMAIN WRAPPER_KEYS : WRAPPER_KEYS[i] = k]])

\* the JSON bodies of a 200 answer: lists, dicts, bare scalars
Bodies ==
    ElementLists \cup {DictBody(w) : w \in [DOMAIN WRAPPER_KEYS -> WrapperValues]}
    \cup {JObj(EmptyMap), JStr("x"), JNum("5"), Null}

\* the 200 branch of fetch_endpoint on a body
NormalizeCalls == [op : {"normalize"}, body : Bodies]

GetTokenCalls == [op : {"get_token"}, held : TokenValues, r : TokenResponses]

\* process_data on the record of the endpoint whose columns have a fallback key
FallbackCalls ==
    [op : {"process_data"}, ep : {"ipd_facility_ward_bed"}, shape : {"pair"},
     v : KeyValues, w : KeyValues, rest : {"null"}, day : Days]

ProcessCalls ==
    [op : {"process_data"}, ep : Range(ENDPOINTS), shape : BodyShapes,
     v : FieldValues, rest : {"absent", "null", "ok"}, day : Days]

SanitizeCalls ==
    [op : {"sanitize"}, col : Range(TARGET_COLUMNS), v : RawValues, day : Days]

\* all_data for a call: endpoint c.ep returned what fetch_endpoint makes of
\* the body, the other endpoints are absent, returned None or returned a
\* well-formed record
Gathered(c) ==
    [n \in (IF c.rest = "absent" THEN {c.ep} ELSE Range(ENDPOINTS)) |->
        IF n = c.ep
        THEN IF c.shape = "pair" THEN Normalize(PairRecord(c.ep, c.v, c.w))
             ELSE Normalize(BodyFor(c.shape, c.ep, c.v))
        ELSE IF c.rest = "null" THEN Null ELSE OkObj(n)]

\* the row before the final pass, with one column holding a raw value
RawRow(c) ==
    [AsValues(BaseRow(c.day, c.day, c.day, Clock)) EXCEPT ![c.col] = c.v]

PureInit ==
    /\ tableExists = FALSE
    /\ store = EmptyBag
    /\ ignored = {}
    /\ pc = "idle"
    /\ IdleRun
    /\ other = [pc |-> "idle", day |-> 0]
    /\ call \in GetTokenCalls \cup ProcessCalls \cup FallbackCalls \cup SanitizeCalls
                \cup NormalizeCalls
    /\ ret = NoRet

runVars == <<dbVars, pc, dates, idx, events, counts, connOpen, token, fanVars,
             row_data, attempts, refreshes, reached, other>>

CallGetToken ==
    /\ call.op = "get_token"
    /\ ret.stage = "none"
    /\ ret' = [stage |-> "done", out |-> get_token(call.held, call.r)]
    /\ UNCHANGED <<call, runVars>>

\* the 200 branch of fetch_endpoint, and the loop that builds all_data
CallFetch ==
    /\ call.op = "process_data"
    /\ ret.stage = "none"
    /\ ret' = [stage |-> "fetched", all_data |-> Gathered(call)]
    /\ UNCHANGED <<call, runVars>>

CallProcessData ==
    /\ call.op = "process_data"
    /\ ret.stage = "fetched"
    /\ ret' = [stage |-> "done", all_data |-> ret.all_data,
               out |-> process_data(ret.all_data, call.day, call.day, call.day, Clock)]
    /\ UNCHANGED <<call, runVars>>

\* the final pass of process_data
CallSanitize ==
    /\ call.op = "sanitize"
    /\ ret.stage = "none"
    /\ ret' = [stage |-> "once", row |-> Sanitize(RawRow(call))]
    /\ UNCHANGED <<call, runVars>>

\* the final pass, applied to the row it returned
CallSanitizeAgain ==
    /\ call.op = "sanitize"
    /\ ret.stage = "once"
    /\ ret' = [stage |-> "twice", row |-> ret.row,
               again |-> Sanitize(AsValues(ret.row))]
    /\ UNCHANGED <<call, runVars>>

\* lines 214-222 of fetch_endpoint on the body of a 200 answer
CallNormalize ==
    /\ call.op = "normalize"
    /\ ret.stage = "none"
    /\ ret' = [stage |-> "done", out |-> Normalize(call.body)]
    /\ UNCHANGED <<call, runVars>>

NextPure ==
    \/ CallGetToken
    \/ CallNormalize
    \/ CallFetch
    \/ CallProcessData
    \/ CallSanitize
    \/ CallSanitizeAgain

SpecPure == PureInit /\ [][NextPure]_vars

(***************************************************************************)
(* Properties.                                                             *)
(***************************************************************************)
\* no row of st has a second copy, and no two rows of st share a data_date
OneRowPerDate(st) ==
    \A r1 \in BagToSet(st) :
        /\ CopiesIn(r1, st) = 1
        /\ \A r2 \in BagToSet(st) : DateOf(r1) = DateOf(r2) => r1 = r2

\* C1: whatever the run and the concurrent run do, on one date or several,
\* the store holds at most one record for each data_date, and a record that
\* is stored stays as it is: no step overwrites it or adds another of its date
C1_OneRecordPerDate ==
    /\ []OneRowPerDate(store)
    /\ [][\A row \in BagToSet(store) : CopiesIn(row, store') = 1]_vars

\* the run called insert_data for a day the concurrent run had stored in the
\* meantime: its INSERT IGNORE affected no row
C1_Witness ==
    \E d \in ignored :
        /\ d \in Range(attempts)
        /\ HasDate(store, Calendar[d].s)
        /\ \E i \in DOMAIN events :
              /\ events[i].type = "date_done"
              /\ events[i].day = d
              /\ events[i].status = "failed"

Terminal(e) == e.type \in {"complete", "error"}

LastEvent == events[Len(events)]

\* C2: every run ends its event stream with exactly one terminal event, the
\* last event emitted: complete when the date loop finished, a single error
\* otherwise; never both, never two errors, nothing after the terminal event
C2_OneTerminalEvent ==
    /\ Cardinality({i \in DOMAIN events : Terminal(events[i])}) <= 1
    /\ \A i \in DOMAIN events : Terminal(events[i]) => i = Len(events)
    /\ pc \in Ended =>
          /\ events # <<>>
          /\ Terminal(LastEvent)
          /\ (LastEvent.type = "complete") <=> (idx > Len(dates))

\* the frames of the dates, without the log frames
DateFrameTypes ==
    {"date_start", "date_skip", "endpoint_start", "endpoint_done", "date_done"}

IsDateFrame(e) == e.type \in DateFrameTypes

DateFrames == SelectSeq(events, IsDateFrame)

\* the positions in DateFrames at which a date begins
SegmentStarts == {i \in DOMAIN DateFrames : DateFrames[i].type = "date_start"}

\* the frames of the date that begins at position i
Segment(i) ==
    LET later == {j \in SegmentStarts : j > i}
        last == IF later = {} THEN Len(DateFrames) ELSE Min(later) - 1
    IN  SubSeq(DateFrames, i, last)

\* whether the run has left the date that begins at position i
Left(i) == (\E j \in SegmentStarts : j > i) \/ pc \in Ended

EndpointNames == {ENDPOINTS[e] : e \in EPS}

\* the frame at position k of a date's frames is the one the order asks for
InOrder(seg, k) ==
    LET n == NumEndpoints
    IN  CASE k = 1 -> seg[k].type = "date_start"
          [] k \in 2..(n + 1) ->
                /\ seg[k].type = "endpoint_start"
                /\ \A j \in 2..(k - 1) : seg[j].ep # seg[k].ep
                /\ seg[k].ep \in EndpointNames
          [] k \in (n + 2)..(2 * n + 1) ->
                /\ seg[k].type = "endpoint_done"
                /\ \A j \in (n + 2)..(k - 1) : seg[j].ep # seg[k].ep
                /\ seg[k].ep \in EndpointNames
          [] k = 2 * n + 2 -> seg[k].type = "date_done"
          [] OTHER -> FALSE

Skipped(seg) == \E k \in DOMAIN seg : seg[k].type = "date_skip"

\* C3: for every date that is not skipped the frames are date_start, an
\* endpoint_start for each endpoint (all before any fetch of the fan-out
\* begins), one endpoint_done for each endpoint, one date_done, in this
\* order, and a date the run has left has all of them
C3_DateEventOrder ==
    /\ \A i \in SegmentStarts :
          LET seg == Segment(i)
          IN  ~Skipped(seg) =>
                 /\ \A k \in DOMAIN seg : InOrder(seg, k)
                 /\ Left(i) => Len(seg) = 2 * NumEndpoints + 2
    /\ (\E e \in EPS : tpc[e] \notin {"idle", "start"}) =>
          /\ SegmentStarts # {}
          /\ Len(Segment(Max(SegmentStarts))) >= NumEndpoints + 1

\* C4: a call whose GET was answered 401 refreshes the token and issues the
\* same GET once more, so that it has issued two GETs when it returns
C4_RetryAfter401 ==
    \A e \in EPS : (tpc[e] = "done" /\ resp[e] = "s401") => ngets[e] = 2

\* C5: when get_token fails (no answer, a status other than 200, or a 200
\* whose body carries no token) it returns failure and the token held before
\* the call is the token held after it
C5_FailedTokenKeepsHeld ==
    (call.op = "get_token" /\ ret.stage = "done" /\ call.r.k # "token") =>
        /\ ~ret.out.ok
        /\ ret.out.token = call.held

\* the answers that make an endpoint call fail without a 401
Failures == {"badjson", "s404", "timeout"}

\* C6: within a fan-out, an endpoint call that fails (timeout, a status that
\* is neither 200 nor 401, malformed JSON) ends at once with the result null
\* and touches nothing else: the token and the position, header, answer and
\* result of every other call stay as they are, every call with a 200 answer
\* returns what its own body gives, and the join waits for all the calls
C6_FailureIsLocal ==
    /\ [](\A e \in EPS : resp[e] \in Failures =>
              tpc[e] = "done" /\ results[e] = Null)
    /\ [](\A e \in EPS : (tpc[e] = "done" /\ resp[e] \in {"ok", "scalar", "empty"}) =>
              results[e] = Normalize(BodyOf(resp[e], ENDPOINTS[e])))
    /\ [](pc = "assemble" => \A e \in EPS : tpc[e] = "done" /\ resp[e] # "none")
    /\ [][\A e \in EPS : (tpc[e] = "get" /\ resp'[e] \in Failures) =>
              /\ token' = token
              /\ pc' = pc
              /\ \A o \in EPS \ {e} :
                    /\ tpc'[o] = tpc[o]
                    /\ hdr'[o] = hdr[o]
                    /\ resp'[o] = resp[o]
                    /\ ngets'[o] = ngets[o]
                    /\ results'[o] = results[o]]_vars

\* one call has failed and another call, answered after it, has returned data
C6_Witness ==
    \E e \in EPS, o \in EPS :
        /\ e # o
        /\ tpc[e] = "done" /\ resp[e] \in Failures /\ results[e] = Null
        /\ tpc[o] = "done" /\ resp[o] = "ok" /\ Truthy(results[o])
        /\ ngets[e] = 1 /\ ngets[o] = 1

\* C7: when insert_data fails for a date of a run over several dates, the
\* run emits date_done with status failed, counts the date as failed, emits
\* no error, goes on to every remaining date and ends with complete
C7_InsertFailureNotFatal ==
    \A i \in DOMAIN events :
        (Len(dates) > 1 /\ events[i].type = "date_done" /\ events[i].status = "failed") =>
            /\ counts.failed >= 1
            /\ \A j \in DOMAIN events : events[j].type # "error"
            /\ pc \in Ended =>
                  /\ LastEvent.type = "complete"
                  /\ \A k \in DOMAIN dates : \E j \in DOMAIN events :
                        events[j].type = "date_start" /\ events[j].day = dates[k]

\* C8: process_data is total: for every mapping of endpoint names to results
\* that the fetcher can produce it does not raise, and the row it returns has
\* every column of TARGET_COLUMNS, each "Not Available" or a non-empty string
C8_ProcessDataTotal ==
    (call.op = "process_data" /\ ret.stage = "done") =>
        /\ ~ret.out.raised
        /\ DOMAIN ret.out.row = Range(TARGET_COLUMNS)
        /\ \A c \in DOMAIN ret.out.row : ret.out.row[c] = NA \/ ret.out.row[c] # ""

\* C9: the final pass of process_data is idempotent: applied to a row it has
\* returned, it returns that row, equal in every field
C9_SanitizeIdempotent ==
    (call.op = "sanitize" /\ ret.stage = "twice") =>
        /\ DOMAIN ret.again = DOMAIN ret.row
        /\ \A c \in DOMAIN ret.row : ret.again[c] = ret.row[c]

\* the pass has run twice on a row in which it replaced a placeholder and
\* kept the other values
C9_Witness ==
    /\ call.op = "sanitize"
    /\ ret.stage = "twice"
    /\ IsPlaceholder(call.v)
    /\ call.v # JStr(NA)
    /\ ret.row[call.col] = NA
    /\ \E c \in DOMAIN ret.row : ret.row[c] # NA

\* the number of frames of a type for a day
FramesOf(type, day) ==
    Cardinality({i \in DOMAIN events : events[i].type = type /\ events[i].day = day})

\* the number of insert_data calls for a day
Tries(day) == Cardinality({i \in DOMAIN attempts : attempts[i] = day})

\* a run that ended with complete treated the dates whose duplicate check
\* met one of `found` as skipped, and the other dates as fetched
SkipsExactly(found) ==
    pc = "done" =>
        /\ Cardinality({i \in DOMAIN events : events[i].type = "date_start"}) = Len(dates)
        /\ Len(reached) = Len(dates)
        /\ \A k \in DOMAIN dates :
              IF reached[k] \in found
              THEN FramesOf("date_skip", dates[k]) = 1 /\ Tries(dates[k]) = 0
              ELSE FramesOf("date_skip", dates[k]) = 0 /\ Tries(dates[k]) = 1
        /\ counts.skipped = Cardinality({k \in DOMAIN dates : reached[k] \in found})

\* C10, as the code has it: a run over N dates that ends with complete emits
\* N date_start frames; each date whose duplicate check finds a record gets
\* one date_skip and no insert_data call, every other date (a stored date
\* whose check raised among them) gets one insert_data call, and
\* complete.skipped is the number of dates whose check found a record
C10_SkipWhenCheckFinds == SkipsExactly({"present"})

\* C10, as stated: each date present in the store when it is reached gets one
\* date_skip and no insert_data call, each other date one insert_data call,
\* and complete.skipped is the number of dates that were present
C10_SkipWhenPresent == SkipsExactly({"present", "present_err"})

\* a run over several dates has ended with complete; it skipped a stored date
\* and called insert_data for another
C10_Witness ==
    /\ pc = "done"
    /\ Len(dates) > 1
    /\ \E k \in DOMAIN dates : reached[k] = "present"
    /\ \E k \in DOMAIN dates : reached[k] # "present" /\ Tries(dates[k]) = 1

\* every call of the date returned None or a record
NullOrRecord(res) == \A e \in EPS : res[e] = Null \/ res[e].t = "obj"

\* the endpoint of the fan-out that rule r reads
EndpointOf(r) == CHOOSE e \in EPS : ENDPOINTS[e] = r.ep

\* the row handed to insert_data matches the gathered results: the sentinel
\* where the endpoint returned None, the fetched value where it returned a
\* record; and each endpoint has one endpoint_done frame
RowMatchesResults ==
    (row_data # NoRow /\ NullOrRecord(results)) =>
        /\ \A e \in EPS :
              Cardinality({i \in DOMAIN events :
                  events[i].type = "endpoint_done" /\ events[i].ep = ENDPOINTS[e]
                  /\ events[i].day = dates[idx]}) = 1
        /\ FramesOf("endpoint_done", dates[idx]) = NumEndpoints
        /\ \A i \in DOMAIN RULES :
              RULES[i].ep \in EndpointNames =>
                 row_data[RULES[i].col] =
                    IF results[EndpointOf(RULES[i])] = Null THEN NA
                    ELSE PyStr(results[EndpointOf(RULES[i])].f[RULES[i].key])

\* the call of insert_data for the date returns
InsertReturns == pc \in {"insert_check", "insert_exec"} /\ pc' \notin {"insert_check", "insert_exec"}

Usable(x) ==
    /\ x # Absent
    /\ x # Null
    /\ x # JStr("")
    /\ PyLower(PyStr(x)) \notin PLACEHOLDERS

\* C12: number_of_wards and number_of_beds hold the value of the primary key
\* (ward_count, bed_count) when it is usable, else the value of the fallback
\* key (wards, beds) when it is usable, else the sentinel
C12_FallbackKey ==
    (call.op = "process_data" /\ call.shape = "pair" /\ ret.stage = "done") =>
        /\ ~ret.out.raised
        /\ \A i \in DOMAIN RULES :
              RULES[i].kind = "fallback" =>
                 ret.out.row[RULES[i].col] =
                    IF Usable(call.v) THEN PyStr(call.v)
                    ELSE IF Usable(call.w) THEN PyStr(call.w)
                    ELSE NA

\* ward_count is absent and wards holds "40": number_of_wards is "40"
C12_Witness ==
    /\ call.op = "process_data"
    /\ call.shape = "pair"
    /\ call.v = Absent
    /\ call.w = JStr("40")
    /\ ret.stage = "done"
    /\ ret.all_data["ipd_facility_ward_bed"] = JObj([k \in {"wards", "beds"} |-> JStr("40")])
    /\ ret.out.row["number_of_wards"] = "40"

\* the rules that read the endpoint of the call
RulesOfCall == {i \in DOMAIN RULES : RULES[i].ep = call.ep}

\* every source value of the column of rule i in the call's record is null,
\* empty or a placeholder word
SourceUnusable(i) ==
    IF call.shape = "pair"
    THEN ~Usable(call.v) /\ (RULES[i].fb = "" \/ ~Usable(call.w))
    ELSE ~Usable(call.v)

\* C13: when the source value of a mapped field is null, the empty string or
\* a placeholder word in any casing, the assembled field is "Not Available";
\* the final pass does the same to any such value left in the row
C13_PlaceholderToSentinel ==
    /\ (call.op = "process_data" /\ ret.stage = "done"
           /\ ret.all_data[call.ep].t = "obj") =>
          /\ ~ret.out.raised
          /\ \A i \in RulesOfCall : SourceUnusable(i) => ret.out.row[RULES[i].col] = NA
    /\ (call.op = "sanitize" /\ ret.stage = "once" /\ ~Usable(call.v)) =>
          ret.row[call.col] = NA

\* staff_data returned {doctor: "null", ...}: number_of_doctors is the sentinel
C13_Witness ==
    /\ call.op = "process_data"
    /\ call.ep = "staff_data"
    /\ call.shape = "obj"
    /\ call.v = JStr("null")
    /\ ret.stage = "done"
    /\ ret.all_data["staff_data"].f["doctor"] = JStr("null")
    /\ ret.out.row["number_of_doctors"] = NA

\* the frame after which the k-th proactive refresh was made
RefreshAfter(k) == events[refreshes[k]]

\* the proactive refreshes made for a day
RefreshesOf(day) == {k \in DOMAIN refreshes : RefreshAfter(k).day = day}

\* C14, as the code has it: the proactive refresh is made inside a date,
\* after its endpoint_done frames and before its date_done, once for every
\* date that is fetched and is not the last of the list; never for a skipped
\* date and never for the last date
C14_RefreshInsideFetchedDate ==
    /\ \A k \in DOMAIN refreshes :
          /\ RefreshAfter(k).type = "endpoint_done"
          /\ RefreshAfter(k).ep = ENDPOINTS[NumEndpoints]
          /\ RefreshAfter(k).day # dates[Len(dates)]
          /\ \A j \in 1..refreshes[k] :
                ~(events[j].type = "date_done" /\ events[j].day = RefreshAfter(k).day)
    /\ \A n \in DOMAIN dates :
          Cardinality(RefreshesOf(dates[n])) =
             IF n < Len(dates) /\ FramesOf("endpoint_done", dates[n]) > 0
                  /\ (n < idx \/ pc \in {"insert_check", "insert_exec", "crashed"})
             THEN 1 ELSE 0

\* C14, as stated: every proactive refresh comes after a date's terminal
\* frame (date_done or date_skip) and before the next date_start, and a run
\* that ends with complete has made one at each of its date boundaries
C14_RefreshBetweenDates ==
    /\ \A k \in DOMAIN refreshes : RefreshAfter(k).type \in {"date_done", "date_skip"}
    /\ pc = "done" => Len(refreshes) = Len(dates) - 1

\* a run over several dates has ended: it refreshed inside a fetched date and
\* made no refresh for a skipped date that was not the last
C14_Witness ==
    /\ pc = "done"
    /\ Len(dates) > 1
    /\ Len(refreshes) = 1
    /\ \E n \in DOMAIN dates :
          n < Len(dates) /\ FramesOf("endpoint_done", dates[n]) = NumEndpoints
    /\ Len(refreshes) < Len(dates) - 1 \/ FramesOf("date_skip", dates[Len(dates)]) = 1

\* the text strftime gives some day of the calendar
Canonical(text) == \E d \in DOMAIN Calendar : text = Calendar[d].s

\* a text strptime reads as some day of the calendar
Readable(text) == strptime(text) # 0

\* no part of a run has happened: no connection, no token exchange, no fetch,
\* no frame, no row
NothingDone ==
    /\ ~connOpen
    /\ token = NoToken
    /\ events = <<>>
    /\ dates = <<>>
    /\ attempts = <<>>
    /\ store = EmptyBag
    /\ \A e \in EPS : tpc[e] = "idle" /\ ngets[e] = 0

\* the dates are every day from the day of from_date to the day of to_date,
\* ascending
InclusiveRange(from_date, to_date) ==
    /\ Len(dates) = strptime(to_date) - strptime(from_date) + 1
    /\ dates[1] = strptime(from_date)
    /\ dates[Len(dates)] = strptime(to_date)
    /\ \A i \in 1..(Len(dates) - 1) : dates[i + 1] = dates[i] + 1

\* a range request is rejected with status 400 before anything is done when
\* one of its dates is not WellFormed or from_date is after to_date, and
\* yields the inclusive ascending list of days otherwise
RangeContract(WellFormed(_)) ==
    call.op = "fetch_range" =>
        IF \/ ~WellFormed(call.from_date)
           \/ ~WellFormed(call.to_date)
           \/ strptime(call.from_date) > strptime(call.to_date)
        THEN pc = "rejected" /\ ret.status = 400 /\ NothingDone
        ELSE /\ pc # "rejected"
             /\ ret.status = 200
             /\ InclusiveRange(call.from_date, call.to_date)

\* C15 (as the code has it): a "fetch range" request whose from_date is
\* after its to_date, or whose dates strptime cannot read with "%Y-%m-%d", is
\* rejected with status 400 before any database connection is opened, any
\* token exchange or endpoint call is made and any stream event is emitted,
\* and a rejected request is never followed by any of these; every other
\* request, a date written without zero padding included, yields the list of
\* every day from from_date to to_date inclusive, in ascending order.
C15_RangeValidated == RangeContract(Readable)

\* C15 (as stated): the same with every date that is not in the zero-padded
\* YYYY-MM-DD form rejected.
C15_RangeStrictForm == RangeContract(Canonical)

\* a finished run over two days that was asked for with an unpadded date
C15_Witness ==
    /\ call.op = "fetch_range"
    /\ ~Canonical(call.to_date)
    /\ ret.status = 200
    /\ pc = "done"
    /\ Len(dates) = 2

\* the number of frames of a type and a status the run has yielded
CountFrames(type, status) ==
    Cardinality({i \in DOMAIN events :
                    events[i].type = type /\ events[i].status = status})

\* the counts of the run are those of its date_done and date_skip frames,
\* and every date is counted once
CountsMatchFrames ==
    /\ counts.success = CountFrames("date_done", "success")
    /\ counts.failed = CountFrames("date_done", "failed")
    /\ counts.skipped = CountFrames("date_skip", "Already exists in database")
    /\ counts.success + counts.skipped + counts.failed = Len(dates)

\* C16 (as the code has it): when a run emits `complete`, its success,
\* skipped and failed counts equal the numbers of `date_done` success,
\* `date_skip` and `date_done` failed events of the run, their sum equals the
\* number of dates of the run, and total_records is the number of records in
\* the store at that moment, or 0 when the count query failed.
C16_CountsAtComplete ==
    pc = "done" =>
        /\ CountsMatchFrames
        /\ counts.total \in {BagCardinality(store), 0}

\* C16 (as stated): total_records is always the number of records in the
\* store.
C16_TotalIsStoreSize ==
    pc = "done" =>
        /\ CountsMatchFrames
        /\ counts.total = BagCardinality(store)

\* a completed run over two dates, one saved and one skipped, that reports
\* the two records of the store
C16_Witness ==
    /\ pc = "done"
    /\ counts.success = 1
    /\ counts.skipped = 1
    /\ counts.total = 2
    /\ BagCardinality(store) = 2

\* the insert_data call of the run returns True: the date is counted a success
ReturnsTrue == counts'.success = counts.success + 1

\* the insert_data call of the run returns False: the date is counted failed
ReturnsFalse == counts'.failed = counts.failed + 1

\* C17: insert_data returns true exactly when its call added a row to the
\* store: it returns false and leaves the store unchanged when a record with
\* the same data_date already exists (found by the pre-check or rejected by
\* the unique key) or when the database reports an error, and it never raises
\* to its caller.
C17_InsertReturnsWhetherAdded ==
    [][InsertReturns =>
          /\ ReturnsTrue \/ ReturnsFalse
          /\ pc' \in {"date", "finish"}
          /\ ReturnsTrue <=> store' = store (+) SetToBag({row_data})
          /\ ReturnsFalse <=> store' = store
          /\ HasDate(store, DateOf(row_data)) => ReturnsFalse]_vars

\* a run whose insert_data returned false for a date the unique key rejected
\* and true for another date
C17_Witness ==
    /\ ignored # {}
    /\ counts.failed >= 1
    /\ counts.success >= 1

\* the positions of a run whose next step is a database operation:
\* ensure_table_exists, check_duplicate, the check and the INSERT of
\* insert_data, get_record_count and close
DatabasePositions == {"ensure", "date", "insert_check", "insert_exec", "finish"}

\* a fetch_endpoint call of the fan-out has been issued and has not returned
InFlight(e) == tpc[e] \in {"start", "tok", "hdr", "get", "refresh"}

\* C18: within one run, no database operation (duplicate check, insert,
\* record count, close) is performed while any endpoint fetch of a fan-out is
\* in flight: every database access happens either before the date's fetches
\* are issued or after all of them have completed (the run leaves the fan-out
\* only when every call has returned), and the run is at one position at a
\* time, so its database accesses never overlap each other.
C18_NoDatabaseAccessDuringFanOut ==
    /\ [](pc \in DatabasePositions => \A e \in EPS : ~InFlight(e))
    /\ []((\E e \in EPS : InFlight(e)) => pc = "fanout")
    /\ [][(pc = "fanout" /\ pc' # "fanout") => \A e \in EPS : tpc[e] = "done"]_vars
    /\ [][store' # store \/ connOpen' # connOpen =>
              pc \in DatabasePositions \cup {"idle"} /\ \A e \in EPS : ~InFlight(e)]_vars

\* the INSERT of a date is about to run after a fan-out in which one call
\* returned a record
C18_Witness ==
    /\ pc = "insert_exec"
    /\ \E e \in EPS : results[e] # Null
    /\ \A e \in EPS : ~InFlight(e)

\* the frames of the run that carry a date
DatedFrames == SelectSeq(events, LAMBDA ev : ev.day # 0)

\* the frames of a date are contiguous and the dates follow the list: a frame
\* is followed by a frame of the same date that is no date_start, or by the
\* date_start of the next date of the list once the date is done or skipped
FramesFollowList ==
    /\ DatedFrames # <<>> =>
          DatedFrames[1].type = "date_start" /\ DatedFrames[1].day = dates[1]
    /\ \A j \in 1..(Len(DatedFrames) - 1) :
          LET a == DatedFrames[j]
              b == DatedFrames[j + 1]
          IN  IF b.type = "date_start"
              THEN /\ a.type \in {"date_done", "date_skip"}
                   /\ \E n \in 1..(Len(dates) - 1) : a.day = dates[n] /\ b.day = dates[n + 1]
              ELSE b.day = a.day /\ a.type \notin {"date_done", "date_skip"}

\* the date at the position of the loop has started and has not ended, and no
\* later date has started
OnCurrentDate ==
    /\ idx \in DOMAIN dates
    /\ FramesOf("date_start", dates[idx]) = 1
    /\ FramesOf("date_done", dates[idx]) = 0
    /\ FramesOf("date_skip", dates[idx]) = 0
    /\ \A n \in DOMAIN dates : n > idx => FramesOf("date_start", dates[n]) = 0

\* C19: within one run, dates are processed strictly one after another in
\* the order of the date list: the frames of a date are contiguous and
\* follow the list, a completed run has started every date, a fetch is in
\* flight and an insert is under way only for the date at the position of the
\* loop, between its date_start and its date_done, and the loop moves to
\* another date only when no fetch is in flight, so no fetch of one date is
\* in flight with a fetch of another.
C19_DatesInSequence ==
    /\ [](FramesFollowList)
    /\ [](pc = "done" => \A n \in DOMAIN dates : FramesOf("date_start", dates[n]) = 1)
    /\ []((\E e \in EPS : InFlight(e)) \/ pc \in {"insert_check", "insert_exec"}
              => OnCurrentDate)
    /\ [][idx' # idx => \A e \in EPS : ~InFlight(e) /\ ~InFlight(e)']_vars
    /\ [][store' # store =>
              /\ OnCurrentDate
              /\ store' = store (+) SetToBag({row_data})
              /\ DateOf(row_data) = Calendar[dates[idx]].s]_vars

\* the second date of a run has a call waiting for its answer beside a call
\* that has returned, after the first date was done
C19_Witness ==
    /\ idx = 2
    /\ FramesOf("date_done", dates[1]) = 1
    /\ \E e \in EPS : tpc[e] = "get"
    /\ \E e \in EPS : tpc[e] = "done"

\* every call of the fan-out has returned
AllReturned == \A e \in EPS : tpc[e] = "done"

\* what the run has produced for the date: frames, row, rows stored, counts,
\* position in the list
DateProgress == <<events, row_data, attempts, store, counts, idx, refreshes>>

\* C20: for each non-skipped date, assembly of the record (process_data) and
\* the insert start only after every endpoint call of that date has completed
\* with a result or null; if every call eventually completes, the fan-out
\* join eventually returns, and while one call is still outstanding the date
\* makes no further progress.
C20_JoinWaitsForAll ==
    /\ [][(pc = "fanout" /\ pc' # "fanout") =>
              /\ AllReturned
              /\ pc' = "assemble"
              /\ \A e \in EPS : resp[e] # "none"]_vars
    /\ [](pc = "assemble" => AllReturned)
    /\ [][(pc' \in {"insert_check", "crashed"} /\ pc # pc') => pc = "assemble"]_vars
    /\ [][(pc = "fanout" /\ ~AllReturned) =>
              pc' = "fanout" /\ DateProgress' = DateProgress]_vars
    /\ (pc = "fanout") ~> (pc = "assemble")

\* the insert of a date starts after a fan-out in which one call returned a
\* record and another returned nothing
C20_Witness ==
    /\ pc = "insert_check"
    /\ \E e \in EPS : results[e] # Null
    /\ \E e \in EPS : results[e] = Null

\* the days of the run that have a date_skip frame
SkippedDays == {events[i].day : i \in {j \in DOMAIN events : events[j].type = "date_skip"}}

\* the frames of a skipped day are one date_start and one date_skip, and no
\* insert_data call was made for it
OnlyStartAndSkip(day) ==
    /\ FramesOf("date_start", day) = 1
    /\ FramesOf("date_skip", day) = 1
    /\ FramesOf("endpoint_start", day) = 0
    /\ FramesOf("endpoint_done", day) = 0
    /\ FramesOf("date_done", day) = 0
    /\ Tries(day) = 0
    /\ day \notin ignored

\* the step of the run that yields a date_skip frame
SkipStep == SkippedDays' # SkippedDays

\* C21: for a date that the duplicate check finds already in the store, the
\* run emits only `date_start` and `date_skip` for that date: no
\* `endpoint_start`, `endpoint_done` or `date_done` is emitted for it, no
\* endpoint call is issued, no insert is attempted, and the store is unchanged
\* by that date's step.
C21_SkipTouchesNothing ==
    /\ [](\A day \in SkippedDays : OnlyStartAndSkip(day))
    /\ [][SkipStep =>
              /\ HasDate(store, Calendar[dates[idx]].s)
              /\ events' = events \o
                    <<Ev("date_start", dates[idx], "", ""),
                      Ev("date_skip", dates[idx], "", "Already exists in database")>>
              /\ UNCHANGED <<store, tableExists, fanVars, token, attempts, row_data>>]_vars

\* the run fetches its second date after it skipped the first
C21_Witness ==
    /\ idx = 2
    /\ pc = "fanout"
    /\ dates[1] \in SkippedDays
    /\ HasDate(store, Calendar[dates[1]].s)

\* the run has yielded an error frame
ErrorFrame == \E i \in DOMAIN events : events[i].type = "error"

\* C22: every endpoint call terminates with a value and never raises to the
\* orchestrator: a call that has been issued leads to its return, a call
\* makes at most 3 GETs (one plus 2 retries), a call whose GETs were all
\* answered by transient server errors or timeouts has made 3 of them and
\* returns null, and no run that issued endpoint calls ends with `error`.
C22_CallsTerminateBounded ==
    /\ [](\A e \in EPS : ngets[e] <= 3)
    /\ [](\A e \in EPS : resp[e] \in Transient =>
              tpc[e] = "done" /\ ngets[e] = 3 /\ results[e] = Null)
    /\ [][\A e \in EPS : (tpc[e] # "done" /\ tpc'[e] = "done") =>
              /\ pc' = "fanout"
              /\ events' = events
              /\ results'[e] = Null \/ resp'[e] \in {"ok", "scalar", "empty"}]_vars
    /\ [](ErrorFrame => FramesOf("endpoint_start", dates[1]) = 0 /\ pc = "aborted")
    /\ \A e \in EPS : (tpc[e] = "start") ~> (tpc[e] = "done")

\* the calls of a date have returned, one of them null after three GETs that
\* were answered by transient errors, and the run goes on to assemble the
\* record
C22_Witness ==
    /\ pc = "assemble"
    /\ \E e \in EPS : resp[e] \in Transient /\ ngets[e] = 3 /\ results[e] = Null
    /\ ~ErrorFrame

\* the value under a key of a dict body is a non-empty list
NonEmptyListAt(body, key) ==
    /\ key \in DOMAIN body.f
    /\ body.f[key].t = "arr"
    /\ body.f[key].a # <<>>

\* what the normalisation rule gives for the body of a 200 answer
RuleResult(body) ==
    CASE body.t = "arr" /\ body.a # <<>> ->
            IF Head(body.a).t = "obj" THEN Head(body.a)
            ELSE JObj([k \in {"value"} |-> Head(body.a)])
      [] body.t = "obj" /\ NonEmptyListAt(body, "data") -> Head(body.f["data"].a)
      [] body.t = "obj" /\ ~NonEmptyListAt(body, "data")
            /\ NonEmptyListAt(body, "result") -> Head(body.f["result"].a)
      [] body.t = "obj" /\ ~NonEmptyListAt(body, "data")
            /\ ~NonEmptyListAt(body, "result")
            /\ NonEmptyListAt(body, "results") -> Head(body.f["results"].a)
      [] body.t = "obj" /\ ~NonEmptyListAt(body, "data")
            /\ ~NonEmptyListAt(body, "result")
            /\ ~NonEmptyListAt(body, "results")
            /\ NonEmptyListAt(body, "records") -> Head(body.f["records"].a)
      [] body.t = "obj" /\ \A key \in Range(WRAPPER_KEYS) : ~NonEmptyListAt(body, key) -> body
      [] OTHER -> Null

\* C23: for a 200 response, fetch_endpoint returns: the first element of the
\* body when the body is a non-empty array (a non-object first element
\* wrapped as {value: element}); else, when the body is an object, the first
\* element of the first of its keys data, result, results, records (tried in
\* that order) whose value is a non-empty array; else the body itself when it
\* is an object; else null (empty array, bare scalar).
C23_NormalizationRule ==
    (call.op = "normalize" /\ ret.stage = "done") => ret.out = RuleResult(call.body)

\* the body is a dict whose `data` holds an empty list and whose `result` and
\* `records` hold different records: the record under `result` is returned
C23_Witness ==
    /\ call.op = "normalize"
    /\ ret.stage = "done"
    /\ call.body.t = "obj"
    /\ "data" \in DOMAIN call.body.f /\ call.body.f["data"] = JArr(<<>>)
    /\ NonEmptyListAt(call.body, "result")
    /\ NonEmptyListAt(call.body, "records")
    /\ call.body.f["result"] # call.body.f["records"]
    /\ ret.out = Head(call.body.f["result"].a)
    /\ ret.out.t = "obj"

\* C24: every result that fetch_endpoint returns, for any response body, is
\* either null or an object (a mapping from keys to values); it is never a
\* bare scalar or an array, so every non-null entry handed to process_data
\* supports key lookup.
C24_ResultNullOrObject ==
    (call.op = "normalize" /\ ret.stage = "done") =>
        ret.out = Null \/ ret.out.t = "obj"

\* the record the source endpoint of the call returned
SourceRecord == ret.all_data[call.ep]

\* the value the record holds under a key, null when it lacks the key
SourceValue(key) == DictGet(SourceRecord.f, key)

\* the string forms that keep number_of_auxiliary_nurse_midwives at the
\* sentinel
ZeroForms == {"0", "0.0"}

\* for every rule that reads the record of the call: a usable value under the
\* source key is the field, as a string, unless the rule is one of `zeroed`
\* and the string is a zero form, and the field is the sentinel only when the
\* values under the source key and the fallback key are unusable, or for such
\* a zero
ExtractionHolds(zeroed) ==
    (call.op = "process_data" /\ ret.stage = "done"
        /\ SourceRecord.t = "obj" /\ DOMAIN SourceRecord.f # {}) =>
       /\ ~ret.out.raised
       /\ \A i \in RulesOfCall :
             LET val == SourceValue(RULES[i].key)
                 field == ret.out.row[RULES[i].col]
                 zero == RULES[i].kind \in zeroed /\ PyStr(val) \in ZeroForms
             IN  /\ (Usable(val) /\ ~zero) => field = PyStr(val)
                 /\ field = NA =>
                       \/ zero
                       \/ /\ ~Usable(val)
                          /\ RULES[i].fb # "" => ~Usable(SourceValue(RULES[i].fb))

\* C25 (as the code has it): for every extraction rule of process_data, when
\* the source endpoint's result is a non-empty object and the value under the
\* source key is not null, not empty and not a placeholder word, the
\* assembled target field equals the string form of that value, except that
\* number_of_auxiliary_nurse_midwives stays at the sentinel when the string
\* form of anm is "0" or "0.0"; otherwise a mapped field holds the sentinel
\* only when its data is missing or a placeholder.
C25_ExtractionExceptAnmZero == ExtractionHolds({"anm"})

\* C25 (as stated): the same for every rule, with no exception.
C25_ExtractionEveryRule == ExtractionHolds({})

\* male_female_count returned a record whose male_patient_visist is "7":
\* number_of_male_patient_visit is "7"
C25_Witness ==
    /\ call.op = "process_data"
    /\ call.ep = "male_female_count"
    /\ ret.stage = "done"
    /\ SourceRecord.t = "obj"
    /\ SourceValue("male_patient_visist") = JStr("7")
    /\ ret.out.row["number_of_male_patient_visit"] = "7"

\* C26: under every interleaving of the fetch_endpoint calls of a fan-out and
\* of the get_token calls they make, a GET in flight carries a token: its
\* Authorization header is never built from a null token.
C26_NoGetWithoutToken ==
    \A e \in EPS : tpc[e] = "get" => hdr[e] # NoToken

\* the answers of the token exchange that carry a token
CarriesToken(r) == r.k = "token"

\* C27: get_token returns true only when the answer to this exchange was a
\* 200 whose body carried a token, and the token held afterwards is then the
\* token of that answer; a token held from an earlier exchange never makes it
\* return true.
C27_TrueOnlyOnFreshToken ==
    (call.op = "get_token" /\ ret.stage = "done" /\ ret.out.ok) =>
        /\ CarriesToken(call.r)
        /\ ret.out.token = call.r.t

\* C28: when a run of fetch_data_stream has ended (by `complete`, by the
\* schema-creation `error` or by the token-exchange `error`), the database
\* connection it opened has been closed.
C28_ConnectionClosedAtEnd ==
    pc \in Ended => ~connOpen

\* the endpoints of the registry no extraction statement reads
Ignored ==
    {"total_live_district", "total_live_block",
     "patient_first_registration_opd", "bcm_dcm_count"}

\* results an ignored endpoint is given in the second call: None, a number
AltResults == {Null, JNum("5")}

\* the inputs that differ from all_data only in the results of the ignored
\* endpoints
Variants(all_data) ==
    {[n \in DOMAIN all_data \cup Ignored |->
        IF n \in Ignored THEN alt[n] ELSE all_data[n]] :
     alt \in [Ignored -> AltResults]}

\* the input with no entry for an ignored endpoint: two inputs that differ
\* only in the results of the ignored endpoints have the same one
WithoutIgnored(all_data) == [n \in DOMAIN all_data \ Ignored |-> all_data[n]]

\* two outcomes of process_data equal in every field other than fetched_at
SameButFetchedAt(a, b) ==
    /\ a.raised = b.raised
    /\ \A c \in DOMAIN a.row \ {"fetched_at"} : a.row[c] = b.row[c]

\* C29: the results of total_live_district, total_live_block,
\* patient_first_registration_opd and bcm_dcm_count have no effect on the
\* assembled record: a call of process_data returns the record, equal in every
\* field other than fetched_at, that it returns for the input without these
\* four, so two calls whose inputs differ only in the results of these four
\* return records equal in every such field; for a call on one of the four
\* the records of the inputs that differ only there are compared one by one.
C29_IgnoredEndpointsNoEffect ==
    (call.op = "process_data" /\ ret.stage = "done") =>
        /\ SameButFetchedAt(
               ret.out,
               process_data(WithoutIgnored(ret.all_data),
                            call.day, call.day, call.day, Clock))
        /\ call.ep \in Ignored =>
               \A other_data \in Variants(ret.all_data) :
                   SameButFetchedAt(
                       ret.out,
                       process_data(other_data, call.day, call.day, call.day, Clock))

\* bcm_dcm_count returned a bare string, the other endpoints their records:
\* the record is assembled, number_of_doctors extracted
C29_Witness ==
    /\ call.op = "process_data"
    /\ call.ep = "bcm_dcm_count"
    /\ ret.stage = "done"
    /\ ret.all_data["bcm_dcm_count"] = JStr("7")
    /\ ~ret.out.raised
    /\ ret.out.row["number_of_doctors"] = "7"
    /\ Cardinality(Variants(ret.all_data)) = 16

====
